---- MODULE Spec2Model ----
(***************************************************************************)
(* Fault-injection campaign engine of PAF (tools/run-model).               *)
(*                                                                         *)
(* The module models the FaultDispatcher queue and the per-thread state    *)
(* machine FaultInjectionBaseDriver.runModel of PAF/run_model.py, with its *)
(* two fault-model variants (InstructionSkipDriver, CorruptRegDefDriver),  *)
(* over the campaign data model of FI/faultcampaign.py.  The simulated     *)
(* target (FastModel behind the Iris interface) is the environment: every  *)
(* run of the target stops at a nondeterministically chosen address, or    *)
(* (in the decision phase, where a timeout is given) times out.            *)
(*                                                                         *)
(* Three further specifications work on the campaign alone: ToolSpec (the  *)
(* operations of FaultInjectionCampaign), LoadSpec (loading, evaluating    *)
(* and saving a campaign file) and CliSpec (campaign.py).  IdsSpec is the  *)
(* parsing of the --fault-ids option of run_model.py.                      *)
(***************************************************************************)
EXTENDS Integers, Sequences, FiniteSets, TLC

(***************************************************************************)
(* Bounds of the model.                                                    *)
(***************************************************************************)
NWorkers == 2
NFaults == 2
MaxAddrIdx == 2
MaxCampaignLen == 2
MaxOffset == 1
MaxOps == 2
MaxTerms == 2
MaxFiles == 2

(***************************************************************************)
(* Program constants.                                                      *)
(***************************************************************************)
MaxSpin == 3
ResetXPSR == <<256, 0>>

None == "None"
\* __IBP is None
NoIBP == 0 - 1

Workers == 1..NWorkers
FaultIdx == 1..NFaults

\* Program addresses are half-word aligned byte addresses.
Addrs == {2 * k : k \in 0..MaxAddrIdx}
MemAddrs == Addrs \cup {a + 2 : a \in Addrs}

Effects == {"success", "crash", "noeffect", "caught", "undecided"}
FaultModels == {"InstructionSkip", "CorruptRegDef"}

\* The attributes class FaultInjectionCampaign defines.
CampaignAttrs ==
    {"Filename", "Image", "ReferenceTrace", "MaxTraceTime",
     "ProgramEntryAddress", "ProgramEndAddress", "FaultModel",
     "InjectionRangeInfo", "Campaign", "Oracle"}

(***************************************************************************)
(* 16-bit arithmetic used by the memory and register accessors.            *)
(***************************************************************************)
HalfMod == 65536

RECURSIVE BitAnd(_, _, _)
BitAnd(x, y, n) ==
    IF n = 0 THEN 0
    ELSE (IF x % 2 = 1 /\ y % 2 = 1 THEN 1 ELSE 0)
         + 2 * BitAnd(x \div 2, y \div 2, n - 1)

RECURSIVE BitOr(_, _, _)
BitOr(x, y, n) ==
    IF n = 0 THEN 0
    ELSE (IF x % 2 = 1 \/ y % 2 = 1 THEN 1 ELSE 0)
         + 2 * BitOr(x \div 2, y \div 2, n - 1)

\* A 32-bit register value is kept as the pair <<high half, low half>>.
ToWord(x) == << (x \div HalfMod) % HalfMod, x % HalfMod >>
And32(a, b) == << BitAnd(a[1], b[1], 16), BitAnd(a[2], b[2], 16) >>
Or32(a, b) == << BitOr(a[1], b[1], 16), BitOr(a[2], b[2], 16) >>

(***************************************************************************)
(* The program image: the content of instruction memory after              *)
(* reloadImage.                                                            *)
(***************************************************************************)
Image == [a \in MemAddrs |-> 17920 + a]

\* The replacement encoding a campaign records for a skipped instruction.
NopOf(width) == IF width = 16 THEN 18112 ELSE 18112 * HalfMod + 18112

\* The recorded encoding of the instruction the image holds at addr.
ImageInstr(addr, width) ==
    IF width = 16 THEN Image[addr]
    ELSE Image[addr] * HalfMod + Image[addr + 2]

(***************************************************************************)
(* Campaign data model (FI/faultcampaign.py).                              *)
(***************************************************************************)
NKinds == 5

\* The fault records of the campaigns that are explored: five kinds of
\* records, laid out cyclically from a campaign-specific first kind.
FaultOfKind(k, id, fm) ==
    LET bp    == IF k \in {0, 3} THEN 4 ELSE 2
        count == IF k = 3 THEN 1 ELSE IF k = 0 THEN 0 - 1 ELSE 0
        addr  == IF k = 4 THEN 4 ELSE bp
        width == IF k = 3 THEN 32 ELSE 16
        instr == IF k = 2 THEN ImageInstr(addr, width) + 1
                 ELSE ImageInstr(addr, width)
    IN  [Id |-> id, Address |-> addr, Width |-> width,
         BreakpointInfo |-> [Address |-> bp, Count |-> count],
         Instruction |-> instr,
         FaultedInstr |-> NopOf(width),
         FaultedReg |-> IF k % 2 = 0 THEN "PSR" ELSE "R0",
         Kind |-> fm]

TheOracle ==
    << [Pc |-> 0, Classification |-> <<"success", "crash">>],
       [Pc |-> 4, Classification |-> <<>>],
       [Pc |-> 0, Classification |-> <<"caught">>] >>

TheRanges ==
    << [StartAddress |-> 4, EndAddress |-> 4],
       [StartAddress |-> 2, EndAddress |-> 4] >>

MkCampaign(fm, pe, first) ==
    [FaultModel |-> fm,
     ProgramEntryAddress |-> 0,
     ProgramEndAddress |-> pe,
     InjectionRangeInfo |-> TheRanges,
     Oracle |-> TheOracle,
     Campaign |-> [k \in FaultIdx |->
                     FaultOfKind((first + k - 1) % NKinds, NFaults - k, fm)]]

Campaigns ==
    {MkCampaign(fm, pe, first) :
        fm \in FaultModels, pe \in Addrs, first \in 0..(NKinds - 1)}

\* A driver selection that always makes an InstructionSkipDriver.
getConcreteDriver_AlwaysSkip(c) == "InstructionSkipDriver"

\* FaultInjectionBaseDriver.getConcreteDriver: the class of every driver of
\* the run (the campaigns loaded have one of the two fault models).
getConcreteDriver(c) ==
    IF c.FaultModel = "InstructionSkip" THEN "InstructionSkipDriver"
    ELSE "CorruptRegDefDriver"

\* Classification.eval
ClassificationEval(C) == TRUE

\* An evaluation that returns the Kind of the last term.
ClassificationExprEval_Last(terms) ==
    IF terms = <<>> THEN "undecided" ELSE terms[Len(terms)]

\* ClassificationExpr.eval / Classifier.eval
RECURSIVE ClassificationExprEval(_)
ClassificationExprEval(terms) ==
    IF terms = <<>> THEN "undecided"
    ELSE IF ClassificationEval(Head(terms)) THEN Head(terms)
    ELSE ClassificationExprEval(Tail(terms))

ClassifierEval(C) == ClassificationExprEval(C.Classification)

\* InjectionRangeInfo.isInCallTree
isInCallTree(F, pc) == F.StartAddress <= pc /\ pc <= F.EndAddress

(***************************************************************************)
(* Target memory accessors (IrisDriver).                                   *)
(***************************************************************************)
readMemHalf(m, addr) == m[addr] % HalfMod

readMemWord(m, addr, swap_halves) ==
    LET v == m[addr] + HalfMod * m[addr + 2]
    IN  IF swap_halves
        THEN (v % HalfMod) * HalfMod + ((v \div HalfMod) % HalfMod)
        ELSE v

writeMemHalf(m, addr, value) == [m EXCEPT ![addr] = value % HalfMod]

writeMemWord(m, addr, value, swap_halves) ==
    IF swap_halves
    THEN writeMemHalf(writeMemHalf(m, addr + 2, value % HalfMod),
                      addr, (value \div HalfMod) % HalfMod)
    ELSE writeMemHalf(writeMemHalf(m, addr, value % HalfMod),
                      addr + 2, (value \div HalfMod) % HalfMod)

(***************************************************************************)
(* State.                                                                  *)
(***************************************************************************)
VARIABLES
    jobs,          \* options.jobs, the number of driver threads
    campaign,      \* the loaded FaultInjectionCampaign (fields but Effect)
    FaultIds,      \* the allow-list of fault Ids given to the dispatcher
    HardPSRFault,  \* CorruptRegDefDriver option
    FaultValue,    \* CorruptRegDefDriver option
    Effect,        \* Fault.Effect of every fault of the campaign
    Faults,        \* FaultDispatcher.__Faults, the queue
    pbar,          \* number of FaultDispatcher.update calls
    pc,            \* position of each driver thread in runModel
    TheFault,      \* the fault a driver thread is processing (index)
    ourFaults,     \* faults a driver thread has claimed, in order
    IBP,           \* FaultInjectionBaseDriver.__IBP (address or None)
    cnt,           \* runToInjectionPoint: hits still to see
    i,             \* runModel: spin counter
    OracleMet,     \* runModel: OracleMet
    tpc,           \* program counter of each driver's target
    mem,           \* instruction memory of each driver's target
    regs,          \* registers of each driver's target, as last accessed
    timedout,      \* the last run of the target raised TimeoutError
    nset,          \* number of assignments made to each fault's Effect
    setBy,         \* the driver thread that assigned each fault's Effect
    hits,          \* stops at the injection breakpoint since the reset
    restores,      \* number of restore() calls of each driver thread
    updates,       \* number of Dispatcher.update() calls of each thread
    tlog,          \* what a thread did to its target since its last claim
    runs,          \* runs of the target in the decision loop of the fault
    main,          \* position of the main thread in run_model
    joined,        \* SimulationProxy.finalize: threads joined so far
    Cnt,           \* FaultDispatcher.close: the per-effect counts
    results,       \* the Effects in the campaign saved to the results file
    fic,           \* campaign tool: the FaultInjectionCampaign it works on
    stats,         \* campaign tool: what summary() returned
    tool,          \* campaign tool: its position
    nops,          \* campaign tool: offset operations and setter calls so far
    tn,            \* campaign tool: offsetAllFaultsTimeBy calls so far
    tsum,          \* campaign tool: sum of the time offsets applied
    an,            \* campaign tool: offsetAllFaultsAddressBy calls so far
    asum,          \* campaign tool: sum of the address offsets applied
    got,           \* campaign tool: the last getFault call and its result
    doc,           \* load/save: the content of the campaign file
    obj,           \* load/save: the FaultInjectionCampaign first loaded
    obj2,          \* load/save: the one loaded from the file saveToFile wrote
    lpc,           \* load/save: position
    err,           \* load/save: the error that ended the last load
    evals,         \* load/save: what eval() of every classifier returned
    files,         \* campaign.py: the content of the files named on the line
    opts,          \* campaign.py: options
    argi,          \* campaign.py: position of F in options.campaign_files
    ExitValue,     \* campaign.py: ExitValue
    stdout,        \* campaign.py: the summaries and dumps printed
    parsed,        \* campaign.py: for every file handled, whether it loaded
    cli,           \* campaign.py: position of main
    idspec,        \* --fault-ids: the ids and ranges the text was written from
    fault_ids,     \* --fault-ids: options.fault_ids, the text, as characters
    parsed_ids,    \* --fault-ids: what parseFaultIds returned
    ppc            \* --fault-ids: position

mainvars == <<main, joined, Cnt, results>>
toolvars == <<fic, stats, tool, nops, tn, tsum, an, asum, got>>
cfgvars == <<jobs, campaign, FaultIds, HardPSRFault, FaultValue>>
sharedvars == <<Effect, Faults, pbar, nset, setBy>>
drivervars == <<pc, TheFault, ourFaults, IBP, cnt, i, OracleMet>>
targetvars == <<tpc, mem, regs, timedout>>
histvars == <<hits, restores, updates, tlog, runs>>
loadvars == <<doc, obj, obj2, lpc, err, evals>>
clivars == <<files, opts, argi, ExitValue, stdout, parsed, cli>>
idsvars == <<idspec, fault_ids, parsed_ids, ppc>>
\* What the fault injection run does not use.
offvars == <<toolvars, loadvars, clivars, idsvars>>
\* What no driver thread writes.
fixedvars == <<cfgvars, mainvars, offvars>>
vars == <<fixedvars, sharedvars, drivervars, targetvars, histvars>>

RegNames == {"XPSR", "R0"}
XPSRValues == {ResetXPSR, <<24847, 515>>}
FaultValues == {0, 0 - 1, 1}

\* A dispatcher that puts every fault of the campaign on the queue.
SelectFaults_All(c, ids, k) == [n \in 1..(NFaults - k + 1) |-> k + n - 1]

\* FaultDispatcher.__init__: the faults put on the queue, in campaign order.
RECURSIVE SelectFaults(_, _, _)
SelectFaults(c, ids, k) ==
    IF k > NFaults THEN <<>>
    ELSE IF ids.isNone \/ c.Campaign[k].Id \in ids.ids
         THEN <<k>> \o SelectFaults(c, ids, k + 1)
         ELSE SelectFaults(c, ids, k + 1)

AllFaults == SelectFaults(campaign, FaultIds, 1)
CntInjection == Len(AllFaults)
Selected == {AllFaults[n] : n \in 1..Len(AllFaults)}

\* The allow-lists explored: no list (all faults), or all Ids but the one of
\* the first fault of the campaign.
FaultIdsChoices ==
    {[isNone |-> TRUE, ids |-> {}], [isNone |-> FALSE, ids |-> 0..(NFaults - 2)]}

\* The runs explored: every campaign, allow-list and option with one job,
\* and one InstructionSkip campaign, without allow-list, with several jobs.
DefaultOptions == HardPSRFault = FALSE /\ FaultValue = 0

(***************************************************************************)
(* The campaign object the maintenance tool (campaign.py) works on: the    *)
(* fields of FaultInjectionCampaign that summary() and the offset          *)
(* operations read or write.                                               *)
(***************************************************************************)
StatNames == Effects \cup {"notrun", "total"}
NoStats == [e \in StatNames |-> 0]

\* Fault k of a campaign of n faults; its Id is not its position.
ToolFault(k, n, eff) ==
    [Id |-> n - k, Time |-> 10 * k, Address |-> 2 * k,
     BreakpointInfo |-> [Address |-> 2 * k + 2, Count |-> 0],
     Effect |-> eff]

ToolRanges ==
    << [StartTime |-> 0, EndTime |-> 5, StartAddress |-> 0, EndAddress |-> 2],
       [StartTime |-> 7, EndTime |-> 9, StartAddress |-> 4, EndAddress |-> 8] >>

\* The campaigns as loaded: an Effect is optional in a fault record.
ToolCampaigns ==
    {[InjectionRangeInfo |-> ToolRanges,
      Campaign |-> [k \in 1..n |-> ToolFault(k, n, effs[k])]] :
        n \in 0..MaxCampaignLen,
        effs \in [1..MaxCampaignLen -> Effects \cup {None}]}

\* No campaign file is loaded or saved.
LoadIdle ==
    /\ doc = None
    /\ obj = None
    /\ obj2 = None
    /\ lpc = "off"
    /\ err = None
    /\ evals = None

\* campaign.py is not run.
CliIdle ==
    /\ files = <<>>
    /\ opts = None
    /\ argi = 0
    /\ ExitValue = 0
    /\ stdout = <<>>
    /\ parsed = <<>>
    /\ cli = "off"

\* No --fault-ids text is parsed.
IdsIdle ==
    /\ idspec = <<>>
    /\ fault_ids = <<>>
    /\ parsed_ids = None
    /\ ppc = "off"

\* The campaign tool is not used during a fault injection run.
ToolIdle ==
    /\ fic = [InjectionRangeInfo |-> <<>>, Campaign |-> <<>>]
    /\ stats = NoStats
    /\ tool = "off"
    /\ nops = 0
    /\ tn = 0
    /\ tsum = 0
    /\ an = 0
    /\ asum = 0
    /\ got = None

Init ==
    /\ ToolIdle
    /\ LoadIdle
    /\ CliIdle
    /\ IdsIdle
    /\ main = "finalize"
    /\ joined = 0
    /\ Cnt = [e \in Effects |-> 0]
    /\ results = [k \in FaultIdx |-> None]
    /\ jobs \in Workers
    /\ campaign \in Campaigns
    /\ FaultIds \in FaultIdsChoices
    /\ HardPSRFault \in BOOLEAN
    /\ FaultValue \in FaultValues
    /\ campaign.FaultModel = "InstructionSkip" => DefaultOptions
    /\ jobs > 1 => /\ FaultIds.isNone
                   /\ campaign = MkCampaign("InstructionSkip", 0, 0)
    /\ Effect = [k \in FaultIdx |-> None]
    /\ Faults = SelectFaults(campaign, FaultIds, 1)
    /\ pbar = 0
    /\ pc = [w \in Workers |-> IF w <= jobs THEN "get" ELSE "off"]
    /\ TheFault = [w \in Workers |-> 0]
    /\ ourFaults = [w \in Workers |-> <<>>]
    /\ IBP = [w \in Workers |-> NoIBP]
    /\ cnt = [w \in Workers |-> 0]
    /\ i = [w \in Workers |-> 0]
    /\ OracleMet = [w \in Workers |-> FALSE]
    /\ tpc = [w \in Workers |-> 0]
    /\ mem = [w \in Workers |-> Image]
    /\ regs = [w \in Workers |-> [r \in RegNames |-> ResetXPSR]]
    /\ timedout = [w \in Workers |-> FALSE]
    /\ nset = [k \in FaultIdx |-> 0]
    /\ setBy = [k \in FaultIdx |-> 0]
    /\ hits = [w \in Workers |-> 0]
    /\ restores = [w \in Workers |-> 0]
    /\ updates = [w \in Workers |-> 0]
    /\ tlog = [w \in Workers |-> <<>>]
    /\ runs = [w \in Workers |-> 0]

Fault(w) == campaign.Campaign[TheFault[w]]
BpAddr(w) == Fault(w).BreakpointInfo.Address

\* Fault.Effect setter, called by driver thread w on its current fault.
SetEffect(w, s) ==
    /\ Effect' = [Effect EXCEPT ![TheFault[w]] = s]
    /\ nset' = [nset EXCEPT ![TheFault[w]] = @ + 1]
    /\ setBy' = [setBy EXCEPT ![TheFault[w]] = w]

(***************************************************************************)
(* The end of a driver thread: runModel is left and its locals are gone.   *)
(***************************************************************************)
EndThread(w, how) ==
    /\ pc' = [pc EXCEPT ![w] = how]
    /\ cnt' = [cnt EXCEPT ![w] = 0]
    /\ i' = [i EXCEPT ![w] = 0]
    /\ OracleMet' = [OracleMet EXCEPT ![w] = FALSE]

\* FI.utils.die, called from a driver thread: a fatal error, the thread ends.
utils_die(w) == EndThread(w, "dead")

\* A clearInjectionBreakpoint that keeps the breakpoint.
clearInjectionBreakpoint_Keep(ibp) == ibp

\* FaultInjectionBaseDriver.clearInjectionBreakpoint
clearInjectionBreakpoint(ibp) == NoIBP

\* A die that ends every driver thread.
die_All(w) ==
    /\ pc' = [v \in Workers |-> IF pc[v] = "off" THEN "off" ELSE "dead"]
    /\ cnt' = [v \in Workers |-> 0]
    /\ i' = [v \in Workers |-> 0]
    /\ OracleMet' = [v \in Workers |-> FALSE]

\* IrisDriver.die: quit the model, then die.
die(w) == utils_die(w)

\* An exception that is caught and the loop resumed.
raise_Swallowed(w) == EndThread(w, "get")

\* An exception other than queue.Empty leaves runModel.
raise(w) == EndThread(w, "raised")

(***************************************************************************)
(* FaultInjectionBaseDriver.runModel, one driver thread w.                 *)
(***************************************************************************)

\* A get that leaves the fault on the queue.
QueueGet_Peek(q) == IF Len(q) > 1 THEN q ELSE Tail(q)

\* A get that puts the fault back at the end of the queue.
QueueGet_Requeue(q) == Append(Tail(q), Head(q))

\* What Queue.get leaves on the queue.
QueueGet(q) == Tail(q)

\* TheFault = self.Dispatcher.Faults.get(block=False), a fault is available.
Get(w) ==
    /\ pc[w] = "get"
    /\ Faults # <<>>
    /\ TheFault' = [TheFault EXCEPT ![w] = Head(Faults)]
    /\ Faults' = QueueGet(Faults)
    /\ ourFaults' = [ourFaults EXCEPT ![w] = Append(@, Head(Faults))]
    /\ pc' = [pc EXCEPT ![w] = "reset"]
    /\ tlog' = [tlog EXCEPT ![w] = <<>>]
    /\ runs' = [runs EXCEPT ![w] = 0]
    /\ UNCHANGED <<fixedvars, Effect, pbar, nset, setBy, IBP, cnt, i,
                   OracleMet, targetvars, hits, restores, updates>>

\* A get that waits for a fault instead of raising queue.Empty.
QueueEmpty_Blocking(q) == FALSE

\* get(block=False) raises queue.Empty at once when nothing is queued.
QueueEmpty(q) == q = <<>>

\* The get raises queue.Empty: the thread writes its log and returns.
Empty(w) ==
    /\ pc[w] = "get"
    /\ QueueEmpty(Faults)
    /\ EndThread(w, "done")
    /\ runs' = [runs EXCEPT ![w] = 0]
    /\ UNCHANGED <<fixedvars, sharedvars, TheFault, ourFaults, IBP,
                   targetvars, hits, restores, updates, tlog>>

\* A reset that reloads the image before it patches the reset vector.
ResetSequence_ReloadFirst(c) ==
    << [op |-> "resetModel"],
       [op |-> "reloadImage"],
       [op |-> "writeMemWord", at |-> "vector_table + 4",
        value |-> BitOr(c.ProgramEntryAddress, 1, 16)],
       [op |-> "writeRegister", at |-> "XPSR", value |-> ResetXPSR] >>

\* What runModel does to the target between the claim of a fault and
\* inject(): the model is stopped if it runs, and reset; the reset vector is
\* written; the image is reloaded; XPSR is written.
ResetSequence(c) ==
    << [op |-> "resetModel"],
       [op |-> "writeMemWord", at |-> "vector_table + 4",
        value |-> BitOr(c.ProgramEntryAddress, 1, 16)],
       [op |-> "reloadImage"],
       [op |-> "writeRegister", at |-> "XPSR", value |-> ResetXPSR] >>

\* Stop and reset the target, patch the reset vector, reload the image and
\* pin XPSR.  Where the reset leaves the program counter is up to the target.
ResetTarget(w) ==
    /\ pc[w] = "reset"
    /\ tlog' = [tlog EXCEPT ![w] = ResetSequence(campaign)]
    /\ \E a \in Addrs : tpc' = [tpc EXCEPT ![w] = a]
    /\ mem' = [mem EXCEPT ![w] = Image]
    /\ regs' = [regs EXCEPT ![w]["XPSR"] = ResetXPSR]
    /\ timedout' = [timedout EXCEPT ![w] = FALSE]
    /\ hits' = [hits EXCEPT ![w] = 0]
    /\ pc' = [pc EXCEPT ![w] = "setbp"]
    /\ UNCHANGED <<fixedvars, sharedvars, TheFault, ourFaults, IBP, cnt, i,
                   OracleMet, restores, updates, runs>>

\* runToInjectionPoint, up to its run loop.
SetInjectionBreakpoint(w) ==
    /\ pc[w] = "setbp"
    /\ IF IBP[w] # NoIBP
       THEN /\ raise(w)
            /\ UNCHANGED IBP
       ELSE /\ IBP' = [IBP EXCEPT ![w] = BpAddr(w)]
            /\ cnt' = [cnt EXCEPT ![w] = 1 + Fault(w).BreakpointInfo.Count]
            /\ pc' = [pc EXCEPT ![w] =
                        IF 1 + Fault(w).BreakpointInfo.Count > 0
                        THEN "runloop" ELSE "checkpc"]
            /\ UNCHANGED <<i, OracleMet>>
    /\ UNCHANGED <<fixedvars, sharedvars, TheFault, ourFaults,
                   targetvars, histvars>>

\* A hit count that counts every stop.
CountHit_Any(c, a, bp) == c - 1

\* The hit count after the target stopped at address a.
CountHit(c, a, bp) == IF a # bp THEN c ELSE c - 1

\* One iteration of the run loop of runToInjectionPoint: the target runs and
\* stops at some address a.
RunLoop(w) ==
    /\ pc[w] = "runloop"
    /\ \E a \in Addrs :
        /\ tpc' = [tpc EXCEPT ![w] = a]
        /\ cnt' = [cnt EXCEPT ![w] = CountHit(@, a, BpAddr(w))]
        /\ hits' = [hits EXCEPT ![w] = IF a = BpAddr(w) THEN @ + 1 ELSE @]
        /\ pc' = [pc EXCEPT ![w] =
                    IF CountHit(cnt[w], a, BpAddr(w)) > 0
                    THEN "runloop" ELSE "checkpc"]
    /\ UNCHANGED <<fixedvars, sharedvars, TheFault, ourFaults, IBP, i,
                   OracleMet, mem, regs, timedout, restores, updates,
                   tlog, runs>>

\* A test that accepts any address.
AtInjectionPoint_Always(bp, PC) == TRUE

\* The test that ends runToInjectionPoint.
AtInjectionPoint(bp, PC) == bp = PC

CheckInjectionPoint(w) ==
    /\ pc[w] = "checkpc"
    /\ IF AtInjectionPoint(BpAddr(w), tpc[w])
       THEN /\ pc' = [pc EXCEPT ![w] = "inject"]
            /\ UNCHANGED <<cnt, i, OracleMet>>
       ELSE die(w)
    /\ UNCHANGED <<fixedvars, sharedvars, TheFault, ourFaults, IBP,
                   targetvars, histvars>>

(***************************************************************************)
(* InstructionSkipDriver.                                                  *)
(***************************************************************************)

\* The live encoding inject compares with the recorded Instruction.
LiveInstruction(m, PC, f) ==
    IF f.Width = 16 THEN readMemHalf(m, PC)
    ELSE readMemWord(m, PC, TRUE)

\* The write of the faulted encoding.
InjectedMem(m, f) ==
    IF f.Width = 16 THEN writeMemHalf(m, f.Address, f.FaultedInstr)
    ELSE writeMemWord(m, f.Address, f.FaultedInstr, TRUE)

\* A restore(TheFault) that writes nothing.
RestoredMem_None(m, f) == m

\* The write restore(TheFault) does.
RestoredMem(m, f) ==
    IF f.Width = 16 THEN writeMemHalf(m, f.Address, f.Instruction)
    ELSE writeMemWord(m, f.Address, f.Instruction, TRUE)

\* InstructionSkipDriver.inject: its accesses to the memory of the target,
\* the read of the sanity check and the write of the fault.
InjectAccesses(m, PC, f) ==
    << [op |-> IF f.Width = 16 THEN "readMemHalf" ELSE "readMemWord",
        at |-> PC, value |-> LiveInstruction(m, PC, f)],
       [op |-> IF f.Width = 16 THEN "writeMemHalf" ELSE "writeMemWord",
        at |-> f.Address, value |-> f.FaultedInstr] >>

\* A restore that writes the instruction back also when it is given no fault.
RestoreAccesses_AlwaysWrite(f, given) ==
    << [op |-> IF f.Width = 16 THEN "writeMemHalf" ELSE "writeMemWord",
        at |-> f.Address, value |-> f.Instruction],
       [op |-> "clearInjectionBreakpoint"] >>

\* InstructionSkipDriver.restore: what it does to the target, given fault f
\* or no fault.
RestoreAccesses(f, given) ==
    IF given
    THEN << [op |-> IF f.Width = 16 THEN "writeMemHalf" ELSE "writeMemWord",
             at |-> f.Address, value |-> f.Instruction],
            [op |-> "clearInjectionBreakpoint"] >>
    ELSE << [op |-> "clearInjectionBreakpoint"] >>

\* The memory of the target after the accesses ops, in their order.
RECURSIVE WriteAccesses(_, _)
WriteAccesses(m, ops) ==
    IF ops = <<>> THEN m
    ELSE LET o == Head(ops)
         IN  WriteAccesses(
                 CASE o.op = "writeMemHalf" -> writeMemHalf(m, o.at, o.value)
                   [] o.op = "writeMemWord" ->
                          writeMemWord(m, o.at, o.value, TRUE)
                   [] OTHER -> m,
                 Tail(ops))

\* A sanity check that is left out.
InstructionMatches_Always(m, PC, f) == TRUE

\* The sanity check of inject.
InstructionMatches(m, PC, f) == f.Instruction = LiveInstruction(m, PC, f)

\* InstructionSkipDriver.inject, after runToInjectionPoint returned.
InjectInstructionSkip(w) ==
    /\ pc[w] = "inject"
    /\ getConcreteDriver(campaign) = "InstructionSkipDriver"
    /\ IF InstructionMatches(mem[w], tpc[w], Fault(w))
       THEN /\ mem' = [mem EXCEPT ![w] = InjectedMem(@, Fault(w))]
            /\ pc' = [pc EXCEPT ![w] = "decide"]
            /\ OracleMet' = [OracleMet EXCEPT ![w] = FALSE]
            /\ i' = [i EXCEPT ![w] = 0]
            /\ tlog' = [tlog EXCEPT ![w] =
                            @ \o InjectAccesses(mem[w], tpc[w], Fault(w))]
            /\ UNCHANGED cnt
       ELSE /\ die(w)
            /\ tlog' = [tlog EXCEPT ![w] =
                            @ \o SubSeq(InjectAccesses(mem[w], tpc[w],
                                                       Fault(w)), 1, 1)]
            /\ UNCHANGED mem
    /\ UNCHANGED <<fixedvars, sharedvars, TheFault, ourFaults, IBP,
                   tpc, regs, timedout, hits, restores, updates, runs>>

(***************************************************************************)
(* CorruptRegDefDriver.                                                    *)
(***************************************************************************)
KeepMask == <<4080, 65535>>
FlagMask == <<61455, 0>>

\* A fault of the flags that does not clear them first.
SoftPSR_NoClear(reg, fv) == Or32(reg, And32(ToWord(fv), FlagMask))

\* The value inject writes to XPSR when only the flags are faulted.
SoftPSR(reg, fv) == Or32(And32(reg, KeepMask), And32(ToWord(fv), FlagMask))

\* What readRegister can return at the injection point: the target has run
\* since XPSR was pinned, unless no run was needed.
LiveXPSR(w) ==
    IF 1 + Fault(w).BreakpointInfo.Count > 0 THEN XPSRValues
    ELSE {regs[w]["XPSR"]}

\* CorruptRegDefDriver.inject, after runToInjectionPoint returned: the
\* injection breakpoint is cleared.
InjectCorruptRegDef(w) ==
    /\ pc[w] = "inject"
    /\ getConcreteDriver(campaign) = "CorruptRegDefDriver"
    /\ IBP' = [IBP EXCEPT ![w] = clearInjectionBreakpoint(@)]
    /\ pc' = [pc EXCEPT ![w] = "writereg"]
    /\ UNCHANGED <<fixedvars, sharedvars, TheFault, ourFaults, cnt, i,
                   OracleMet, targetvars, histvars>>

\* CorruptRegDefDriver.inject: the register accesses made for fault f, reg
\* being what the target holds in XPSR.
RegisterAccesses(f, hard, fv, reg) ==
    IF f.FaultedReg = "PSR"
    THEN IF hard
         THEN << [op |-> "writeRegister", at |-> "XPSR",
                  value |-> ToWord(fv)] >>
         ELSE << [op |-> "readRegister", at |-> "XPSR", value |-> reg],
                 [op |-> "writeRegister", at |-> "XPSR",
                  value |-> SoftPSR(reg, fv)] >>
    ELSE << [op |-> "writeRegister", at |-> f.FaultedReg,
             value |-> ToWord(fv)] >>

\* CorruptRegDefDriver.inject: the write of the faulted register.
WriteFaultedReg(w) ==
    /\ pc[w] = "writereg"
    /\ \E reg \in LiveXPSR(w) :
          LET ops == RegisterAccesses(Fault(w), HardPSRFault, FaultValue, reg)
              wr  == ops[Len(ops)]
          IN  /\ regs' = [regs EXCEPT ![w][wr.at] = wr.value]
              /\ tlog' = [tlog EXCEPT ![w] = @ \o ops]
    /\ pc' = [pc EXCEPT ![w] = "decide"]
    /\ OracleMet' = [OracleMet EXCEPT ![w] = FALSE]
    /\ i' = [i EXCEPT ![w] = 0]
    /\ UNCHANGED <<fixedvars, sharedvars, TheFault, ourFaults, IBP, cnt,
                   tpc, mem, timedout, hits, restores, updates, runs>>

(***************************************************************************)
(* The decision loop of runModel.                                          *)
(***************************************************************************)

\* FaultInjectionBaseDriver.isInjectionBreakpoint
isInjectionBreakpoint(w, addr) == IBP[w] # NoIBP /\ IBP[w] = addr

\* A scan that lets the last classifier at Pc win.
RECURSIVE OracleScan_Last(_, _)
OracleScan_Last(cls, Pc) ==
    IF cls = <<>> THEN None
    ELSE IF OracleScan_Last(Tail(cls), Pc) # None
         THEN OracleScan_Last(Tail(cls), Pc)
    ELSE IF Pc = Head(cls).Pc THEN ClassifierEval(Head(cls))
    ELSE None

\* The scan of the Oracle's classifiers: the Effect the first classifier at
\* Pc gives, or None when no classifier is at Pc.
RECURSIVE OracleScan(_, _)
OracleScan(cls, Pc) ==
    IF cls = <<>> THEN None
    ELSE IF Pc = Head(cls).Pc THEN ClassifierEval(Head(cls))
    ELSE OracleScan(Tail(cls), Pc)

\* A branch selection that tests the injection breakpoint first.
StopBranch_ReentryFirst(w, Pc) ==
    IF isInjectionBreakpoint(w, Pc) THEN "reentry"
    ELSE IF Pc = campaign.ProgramEndAddress THEN "end"
    ELSE IF OracleScan(campaign.Oracle, Pc) # None THEN "oracle"
    ELSE "spin"

\* The branch one stop of the decision loop takes.
StopBranch(w, Pc) ==
    IF Pc = campaign.ProgramEndAddress THEN "end"
    ELSE IF isInjectionBreakpoint(w, Pc) THEN "reentry"
    ELSE IF OracleScan(campaign.Oracle, Pc) # None THEN "oracle"
    ELSE "spin"

\* A loop test without the spin budget.
LoopAgain_Unbounded(met, n) == ~met

\* A loop test that ignores OracleMet.
LoopAgain_IgnoreMet(met, n) == n < MaxSpin

\* A loop test with one spin too many.
LoopAgain_OffByOne(met, n) == ~met /\ n <= MaxSpin

\* A spin that is not counted.
Spin_Stuck(n) == n

\* i += 1
Spin(n) == n + 1

\* The loop test of the decision loop.
LoopAgain(met, n) == ~met /\ n < MaxSpin

\* Where runModel goes when the loop is left.
AfterLoop(met) == IF ~met THEN "fallback" ELSE "restore"

\* The run of the target raises TimeoutError: the loop is left.
RunTimeout(w) ==
    /\ pc[w] = "decide"
    /\ \E a \in Addrs : tpc' = [tpc EXCEPT ![w] = a]
    /\ timedout' = [timedout EXCEPT ![w] = TRUE]
    /\ pc' = [pc EXCEPT ![w] = AfterLoop(OracleMet[w])]
    /\ runs' = [runs EXCEPT ![w] = @ + 1]
    /\ UNCHANGED <<fixedvars, sharedvars, TheFault, ourFaults, IBP, cnt, i,
                   OracleMet, mem, regs, hits, restores, updates, tlog>>

\* The run of the target returns, stopped at some address a.
RunStop(w) ==
    /\ pc[w] = "decide"
    /\ \E a \in Addrs :
        /\ tpc' = [tpc EXCEPT ![w] = a]
        /\ timedout' = [timedout EXCEPT ![w] = FALSE]
        /\ tlog' = [tlog EXCEPT ![w] =
                       IF /\ StopBranch(w, a) = "reentry"
                          /\ getConcreteDriver(campaign) =
                                 "InstructionSkipDriver"
                          /\ BpAddr(w) = a
                       THEN @ \o RestoreAccesses(Fault(w), TRUE)
                       ELSE @]
        /\ CASE StopBranch(w, a) = "end" ->
                  /\ SetEffect(w, "noeffect")
                  /\ OracleMet' = [OracleMet EXCEPT ![w] = TRUE]
                  /\ pc' = [pc EXCEPT ![w] = AfterLoop(TRUE)]
                  /\ UNCHANGED <<IBP, i, cnt, mem>>
             [] StopBranch(w, a) = "reentry" ->
                  /\ IF getConcreteDriver(campaign) = "InstructionSkipDriver"
                     THEN IF BpAddr(w) # a
                          THEN /\ die(w)
                               /\ UNCHANGED <<IBP, mem>>
                          ELSE /\ mem' = [mem EXCEPT ![w] =
                                             RestoredMem(@, Fault(w))]
                               /\ IBP' = [IBP EXCEPT ![w] =
                                             clearInjectionBreakpoint(@)]
                               /\ UNCHANGED <<pc, OracleMet, i, cnt>>
                     ELSE UNCHANGED <<IBP, mem, pc, OracleMet, i, cnt>>
                  /\ UNCHANGED <<Effect, nset, setBy>>
             [] StopBranch(w, a) = "oracle" ->
                  /\ SetEffect(w, OracleScan(campaign.Oracle, a))
                  /\ OracleMet' = [OracleMet EXCEPT ![w] = TRUE]
                  /\ pc' = [pc EXCEPT ![w] =
                              IF LoopAgain(TRUE, i[w])
                              THEN "decide" ELSE AfterLoop(TRUE)]
                  /\ UNCHANGED <<IBP, i, cnt, mem>>
             [] StopBranch(w, a) = "spin" ->
                  /\ i' = [i EXCEPT ![w] = Spin(@)]
                  /\ pc' = [pc EXCEPT ![w] =
                              IF LoopAgain(OracleMet[w], Spin(i[w]))
                              THEN "decide" ELSE AfterLoop(OracleMet[w])]
                  /\ UNCHANGED <<Effect, nset, setBy, OracleMet, IBP, cnt,
                                 mem>>
    /\ runs' = [runs EXCEPT ![w] = IF pc'[w] = "dead" THEN 0 ELSE @ + 1]
    /\ UNCHANGED <<fixedvars, Faults, pbar, TheFault, ourFaults, regs,
                   hits, restores, updates>>

\* The classification made when the loop ended without OracleMet.
FallbackEffect(Pc) ==
    IF \E n \in 1..Len(campaign.InjectionRangeInfo) :
            isInCallTree(campaign.InjectionRangeInfo[n], Pc)
    THEN "undecided" ELSE "crash"

\* The attribute of the campaign the fallback iterates over.
FallbackAttr == "FunctionInfo"

Fallback(w) ==
    /\ pc[w] = "fallback"
    /\ IF FallbackAttr \in CampaignAttrs
       THEN /\ SetEffect(w, FallbackEffect(tpc[w]))
            /\ pc' = [pc EXCEPT ![w] = "restore"]
            /\ UNCHANGED <<cnt, i, OracleMet>>
       ELSE /\ raise(w)
            /\ UNCHANGED <<Effect, nset, setBy>>
    /\ runs' = [runs EXCEPT ![w] = IF pc'[w] = "restore" THEN @ ELSE 0]
    /\ UNCHANGED <<fixedvars, Faults, pbar, TheFault, ourFaults, IBP,
                   targetvars, hits, restores, updates, tlog>>

\* self.restore(): clear any state in the driver.
Restore(w) ==
    /\ pc[w] = "restore"
    /\ IBP' = [IBP EXCEPT ![w] =
                 IF getConcreteDriver(campaign) = "InstructionSkipDriver"
                 THEN clearInjectionBreakpoint(@) ELSE @]
    /\ tlog' = [tlog EXCEPT ![w] =
                   IF getConcreteDriver(campaign) = "InstructionSkipDriver"
                   THEN @ \o RestoreAccesses(Fault(w), FALSE) ELSE @]
    /\ mem' = [mem EXCEPT ![w] =
                  IF getConcreteDriver(campaign) = "InstructionSkipDriver"
                  THEN WriteAccesses(@, RestoreAccesses(Fault(w), FALSE))
                  ELSE @]
    /\ restores' = [restores EXCEPT ![w] = @ + 1]
    /\ pc' = [pc EXCEPT ![w] = "update"]
    /\ UNCHANGED <<fixedvars, sharedvars, TheFault, ourFaults, cnt, i,
                   OracleMet, tpc, regs, timedout, hits, updates, runs>>

\* An update that does not advance the progress bar.
pbar_update_Lost(n) == n

\* FaultDispatcher.update: self.__pbar.update(1)
pbar_update(n) == n + 1

\* self.Dispatcher.update() and the log line.
Update(w) ==
    /\ pc[w] = "update"
    /\ pbar' = pbar_update(pbar)
    /\ updates' = [updates EXCEPT ![w] = @ + 1]
    /\ pc' = [pc EXCEPT ![w] = "get"]
    /\ UNCHANGED <<fixedvars, Effect, Faults, nset, setBy, TheFault, ourFaults,
                   IBP, cnt, i, OracleMet, targetvars, hits, restores,
                   tlog, runs>>

(***************************************************************************)
(* The main thread of run_model, after IDP.run() started the driver        *)
(* threads: IDP.finalize(), Dispatcher.close(), FIC.saveToFile().          *)
(***************************************************************************)

\* A join that does not wait for the thread.
ThreadJoined_NoWait(p) == TRUE

\* Thread.join returns once the thread's runModel has ended, however it did.
ThreadJoined(p) == p \in {"done", "dead", "raised"}

\* SimulationProxy.finalize: the threads are joined in the order of creation.
JoinThread ==
    /\ main = "finalize"
    /\ joined < jobs
    /\ ThreadJoined(pc[joined + 1])
    /\ joined' = joined + 1
    /\ main' = IF joined + 1 = jobs THEN "close" ELSE "finalize"
    /\ UNCHANGED <<cfgvars, offvars, Cnt, results, sharedvars, drivervars,
                   targetvars, histvars>>

\* The counts FaultDispatcher.close computes over the selected faults.
CloseCnt(eff) ==
    [e \in Effects |-> Cardinality({k \in Selected : eff[k] = e})]

\* FaultDispatcher.close: a fault whose Effect is not one of the five ends
\* the program with a fatal error.
Close ==
    /\ main = "close"
    /\ IF \E k \in Selected : Effect[k] \notin Effects
       THEN /\ main' = "dead"
            /\ UNCHANGED Cnt
       ELSE /\ Cnt' = CloseCnt(Effect)
            /\ main' = "save"
    /\ UNCHANGED <<cfgvars, offvars, joined, results, sharedvars, drivervars,
                   targetvars, histvars>>

\* FIC.saveToFile(options.driver_cfg + ".results")
Save ==
    /\ main = "save"
    /\ results' = Effect
    /\ main' = "shutdown"
    /\ UNCHANGED <<cfgvars, offvars, joined, Cnt, sharedvars, drivervars,
                   targetvars, histvars>>

\* One step of driver thread w.
Driver(w) ==
    \/ Get(w)
    \/ Empty(w)
    \/ ResetTarget(w)
    \/ SetInjectionBreakpoint(w)
    \/ RunLoop(w)
    \/ CheckInjectionPoint(w)
    \/ InjectInstructionSkip(w)
    \/ InjectCorruptRegDef(w)
    \/ WriteFaultedReg(w)
    \/ RunTimeout(w)
    \/ RunStop(w)
    \/ Fallback(w)
    \/ Restore(w)
    \/ Update(w)

Next ==
    \/ \E w \in Workers : Driver(w)
    \/ JoinThread
    \/ Close
    \/ Save

Spec == Init /\ [][Next]_vars

\* Every driver thread is an OS thread with its own simulator process, and
\* the main thread only waits for them: each of them keeps being scheduled.
LiveSpec ==
    /\ Spec
    /\ \A w \in Workers : WF_vars(Driver(w))
    /\ WF_vars(JoinThread \/ Close \/ Save)

TypeOK ==
    /\ pc \in [Workers -> {"get", "reset", "setbp", "runloop", "checkpc",
                           "inject", "decide", "fallback", "restore",
                           "writereg", "update", "done", "dead", "raised",
                           "off"}]
    /\ main \in {"finalize", "close", "save", "shutdown", "dead"}
    /\ joined \in 0..jobs
    /\ Cnt \in [Effects -> 0..NFaults]
    /\ results \in [FaultIdx -> Effects \cup {None}]
    /\ pbar \in 0..NFaults
    /\ Effect \in [FaultIdx -> Effects \cup {None}]
    /\ IBP \in [Workers -> Addrs \cup {NoIBP}]
    /\ i \in [Workers -> 0..(MaxSpin + 1)]

(***************************************************************************)
(* The campaign maintenance tool: the operations of FaultInjectionCampaign *)
(* it applies to a loaded campaign (FI/faultcampaign.py).                  *)
(***************************************************************************)

\* No fault injection run takes place while the tool works.
RunIdle ==
    /\ jobs = 1
    /\ campaign = MkCampaign("InstructionSkip", 0, 0)
    /\ FaultIds = [isNone |-> TRUE, ids |-> {}]
    /\ HardPSRFault = FALSE
    /\ FaultValue = 0
    /\ main = "off"
    /\ joined = 0
    /\ Cnt = [e \in Effects |-> 0]
    /\ results = [k \in FaultIdx |-> None]
    /\ Effect = [k \in FaultIdx |-> None]
    /\ Faults = <<>>
    /\ pbar = 0
    /\ pc = [w \in Workers |-> "off"]
    /\ TheFault = [w \in Workers |-> 0]
    /\ ourFaults = [w \in Workers |-> <<>>]
    /\ IBP = [w \in Workers |-> NoIBP]
    /\ cnt = [w \in Workers |-> 0]
    /\ i = [w \in Workers |-> 0]
    /\ OracleMet = [w \in Workers |-> FALSE]
    /\ tpc = [w \in Workers |-> 0]
    /\ mem = [w \in Workers |-> Image]
    /\ regs = [w \in Workers |-> [r \in RegNames |-> ResetXPSR]]
    /\ timedout = [w \in Workers |-> FALSE]
    /\ nset = [k \in FaultIdx |-> 0]
    /\ setBy = [k \in FaultIdx |-> 0]
    /\ hits = [w \in Workers |-> 0]
    /\ restores = [w \in Workers |-> 0]
    /\ updates = [w \in Workers |-> 0]
    /\ tlog = [w \in Workers |-> <<>>]
    /\ runs = [w \in Workers |-> 0]

runvars == <<cfgvars, mainvars, sharedvars, drivervars, targetvars, histvars>>

nontoolvars == <<runvars, loadvars, clivars, idsvars>>

ToolInit ==
    /\ RunIdle
    /\ LoadIdle
    /\ CliIdle
    /\ IdsIdle
    /\ fic \in ToolCampaigns
    /\ stats = NoStats
    /\ tool = "loaded"
    /\ nops = 0
    /\ tn = 0
    /\ tsum = 0
    /\ an = 0
    /\ asum = 0
    /\ got = None

Offsets == (0 - MaxOffset)..MaxOffset

\* A time offset that keeps every time at or above zero.
offsetAllFaultsTimeBy_Saturating(c, offset) ==
    LET Sat(t) == IF t + offset < 0 THEN 0 ELSE t + offset
    IN  [c EXCEPT
           !.InjectionRangeInfo =
               [n \in 1..Len(@) |->
                   [@[n] EXCEPT !.StartTime = Sat(@), !.EndTime = Sat(@)]],
           !.Campaign =
               [k \in 1..Len(@) |-> [@[k] EXCEPT !.Time = Sat(@)]]]

\* A time offset that only moves the first injection range.
offsetAllFaultsTimeBy_FirstRange(c, offset) ==
    [c EXCEPT
       !.InjectionRangeInfo =
           [n \in 1..Len(@) |->
               IF n = 1
               THEN [@[n] EXCEPT !.StartTime = @ + offset,
                                 !.EndTime = @ + offset]
               ELSE @[n]],
       !.Campaign =
           [k \in 1..Len(@) |-> [@[k] EXCEPT !.Time = @ + offset]]]

\* FaultInjectionCampaign.offsetAllFaultsTimeBy
offsetAllFaultsTimeBy(c, offset) ==
    [c EXCEPT
       !.InjectionRangeInfo =
           [n \in 1..Len(@) |->
               [@[n] EXCEPT !.StartTime = @ + offset, !.EndTime = @ + offset]],
       !.Campaign =
           [k \in 1..Len(@) |-> [@[k] EXCEPT !.Time = @ + offset]]]

\* An address offset that leaves the breakpoint addresses alone.
offsetAllFaultsAddressBy_NoBreakpoint(c, offset) ==
    [c EXCEPT
       !.InjectionRangeInfo =
           [n \in 1..Len(@) |->
               [@[n] EXCEPT !.StartAddress = @ + offset,
                            !.EndAddress = @ + offset]],
       !.Campaign =
           [k \in 1..Len(@) |-> [@[k] EXCEPT !.Address = @ + offset]]]

\* An address offset that also renumbers the faults.
offsetAllFaultsAddressBy_Renumber(c, offset) ==
    [c EXCEPT
       !.InjectionRangeInfo =
           [n \in 1..Len(@) |->
               [@[n] EXCEPT !.StartAddress = @ + offset,
                            !.EndAddress = @ + offset]],
       !.Campaign =
           [k \in 1..Len(@) |->
               [@[k] EXCEPT !.Address = @ + offset,
                            !.BreakpointInfo.Address = @ + offset,
                            !.Id = @ + offset]]]

\* FaultInjectionCampaign.offsetAllFaultsAddressBy
offsetAllFaultsAddressBy(c, offset) ==
    [c EXCEPT
       !.InjectionRangeInfo =
           [n \in 1..Len(@) |->
               [@[n] EXCEPT !.StartAddress = @ + offset,
                            !.EndAddress = @ + offset]],
       !.Campaign =
           [k \in 1..Len(@) |->
               [@[k] EXCEPT !.Address = @ + offset,
                            !.BreakpointInfo.Address = @ + offset]]]

\* A summary that counts a fault without Effect as undecided.
SummaryBucket_Undecided(F) ==
    IF F.Effect # None THEN F.Effect ELSE "undecided"

\* The bucket summary() counts fault F in.
SummaryBucket(F) == IF F.Effect # None THEN F.Effect ELSE "notrun"

\* The loop of summary() over the faults from position k on.
RECURSIVE SummaryLoop(_, _, _)
SummaryLoop(c, k, st) ==
    IF k > Len(c.Campaign) THEN st
    ELSE SummaryLoop(c, k + 1,
                     [st EXCEPT ![SummaryBucket(c.Campaign[k])] = @ + 1])

\* FaultInjectionCampaign.summary
summary(c) ==
    SummaryLoop(c, 1, [NoStats EXCEPT !["total"] = @ + Len(c.Campaign)])

\* The Ids given to getFault: those of the campaign and two others.
GetIds == (0 - 1)..MaxCampaignLen

\* An IndexError was raised.
IndexError == "IndexError"

\* FaultInjectionCampaign.getFault: self.__Campaign[Id], on a Python list
\* (first position 0, negative positions counted from the end).
getFault(c, Id) ==
    LET n == Len(c.Campaign)
    IN  IF Id >= 0 /\ Id < n THEN c.Campaign[Id + 1]
        ELSE IF Id < 0 /\ Id >= 0 - n THEN c.Campaign[n + Id + 1]
        ELSE IndexError

OffsetTime ==
    /\ tool = "loaded"
    /\ nops < MaxOps
    /\ \E d \in Offsets :
          /\ fic' = offsetAllFaultsTimeBy(fic, d)
          /\ tsum' = tsum + d
    /\ nops' = nops + 1
    /\ tn' = tn + 1
    /\ UNCHANGED <<nontoolvars, stats, tool, an, asum, got>>

OffsetAddress ==
    /\ tool = "loaded"
    /\ nops < MaxOps
    /\ \E d \in Offsets :
          /\ fic' = offsetAllFaultsAddressBy(fic, d)
          /\ asum' = asum + d
    /\ nops' = nops + 1
    /\ an' = an + 1
    /\ UNCHANGED <<nontoolvars, stats, tool, tn, tsum, got>>

GetFault ==
    /\ tool = "loaded"
    /\ \E Id \in GetIds : got' = [Id |-> Id, ret |-> getFault(fic, Id)]
    /\ tool' = "got"
    /\ UNCHANGED <<nontoolvars, fic, stats, nops, tn, tsum, an, asum>>

\* Fault.Effect setter, with one of the five effects.
AssignEffect ==
    /\ tool = "loaded"
    /\ \E k \in 1..Len(fic.Campaign), e \in Effects :
          fic' = [fic EXCEPT !.Campaign[k].Effect = e]
    /\ UNCHANGED <<nontoolvars, stats, tool, nops, tn, tsum, an, asum, got>>

\* The values given to a property setter of a field that holds v: v itself
\* and the values up to MaxOffset away from it.
NearValues(v) == {v + d : d \in Offsets}

\* What every call of a property setter does besides its assignment: it is
\* one more operation on the campaign, and no offset operation.
SetterCall ==
    /\ tool = "loaded"
    /\ nops < MaxOps
    /\ nops' = nops + 1
    /\ UNCHANGED <<nontoolvars, stats, tool, tn, tsum, an, asum, got>>

\* Fault.Time setter
SetFaultTime ==
    /\ SetterCall
    /\ \E k \in 1..Len(fic.Campaign) :
          \E time \in NearValues(fic.Campaign[k].Time) :
              fic' = [fic EXCEPT !.Campaign[k].Time = time]

\* Fault.Address setter
SetFaultAddress ==
    /\ SetterCall
    /\ \E k \in 1..Len(fic.Campaign) :
          \E address \in NearValues(fic.Campaign[k].Address) :
              fic' = [fic EXCEPT !.Campaign[k].Address = address]

\* BreakpointInfo.Address setter
SetBreakpointAddress ==
    /\ SetterCall
    /\ \E k \in 1..Len(fic.Campaign) :
          \E address \in NearValues(fic.Campaign[k].BreakpointInfo.Address) :
              fic' = [fic EXCEPT !.Campaign[k].BreakpointInfo.Address = address]

\* InjectionRangeInfo.StartTime setter
SetStartTime ==
    /\ SetterCall
    /\ \E n \in 1..Len(fic.InjectionRangeInfo) :
          \E t \in NearValues(fic.InjectionRangeInfo[n].StartTime) :
              fic' = [fic EXCEPT !.InjectionRangeInfo[n].StartTime = t]

\* InjectionRangeInfo.EndTime setter
SetEndTime ==
    /\ SetterCall
    /\ \E n \in 1..Len(fic.InjectionRangeInfo) :
          \E t \in NearValues(fic.InjectionRangeInfo[n].EndTime) :
              fic' = [fic EXCEPT !.InjectionRangeInfo[n].EndTime = t]

\* InjectionRangeInfo.StartAddress setter
SetStartAddress ==
    /\ SetterCall
    /\ \E n \in 1..Len(fic.InjectionRangeInfo) :
          \E address \in NearValues(fic.InjectionRangeInfo[n].StartAddress) :
              fic' = [fic EXCEPT !.InjectionRangeInfo[n].StartAddress = address]

\* InjectionRangeInfo.EndAddress setter
SetEndAddress ==
    /\ SetterCall
    /\ \E n \in 1..Len(fic.InjectionRangeInfo) :
          \E address \in NearValues(fic.InjectionRangeInfo[n].EndAddress) :
              fic' = [fic EXCEPT !.InjectionRangeInfo[n].EndAddress = address]

Summary ==
    /\ tool = "loaded"
    /\ stats' = summary(fic)
    /\ tool' = "summarized"
    /\ UNCHANGED <<nontoolvars, fic, nops, tn, tsum, an, asum, got>>

ToolNext ==
    \/ OffsetTime
    \/ OffsetAddress
    \/ AssignEffect
    \/ SetFaultTime
    \/ SetFaultAddress
    \/ SetBreakpointAddress
    \/ SetStartTime
    \/ SetEndTime
    \/ SetStartAddress
    \/ SetEndAddress
    \/ Summary
    \/ GetFault

ToolSpec == ToolInit /\ [][ToolNext]_vars

(***************************************************************************)
(* Loading and saving a campaign file (FI/faultcampaign.py).  A file is    *)
(* modelled by the document yaml.safe_load returns for its text: mappings  *)
(* are records, lists are sequences.  A constructor returns Ok(object) or  *)
(* Failed(error).                                                          *)
(***************************************************************************)
Ok(v) == [ok |-> TRUE, val |-> v]
Failed(e) == [ok |-> FALSE, err |-> e]

\* FI.utils.die, called while loading: a fatal error, there is no object.
Died == Failed("die")

\* The results of a loop over a list: the first failure ends the loop.
AllOf(rs) ==
    IF \A n \in DOMAIN rs : rs[n].ok
    THEN Ok([n \in DOMAIN rs |-> rs[n].val])
    ELSE Failed(rs[CHOOSE n \in DOMAIN rs :
                      ~rs[n].ok /\ \A m \in 1..(n - 1) : rs[m].ok].err)

\* The keywords the constructors require.
CampaignFields ==
    {"Image", "ReferenceTrace", "MaxTraceTime", "ProgramEntryAddress",
     "ProgramEndAddress", "FaultModel", "InjectionRangeInfo", "Oracle",
     "Campaign"}
RangeFields == {"Name", "StartTime", "EndTime", "StartAddress", "EndAddress"}
ClassifierFields == {"Pc", "Classification"}
BreakpointFields == {"Address", "Count"}
FaultFields ==
    {"Id", "Time", "Address", "Width", "Breakpoint", "Instruction",
     "Disassembly"}
InstructionSkipFields ==
    {"Id", "Time", "Address", "Width", "Executed", "Instruction",
     "FaultedInstr", "Disassembly"}
CorruptRegDefFields ==
    {"Id", "Time", "Address", "Width", "Instruction", "FaultedReg",
     "Disassembly"}
ClassificationKinds == {"noeffect", "success", "crash", "caught"}

\* assertEntityContainsAllOf: TRUE when it returns, FALSE when it calls die.
assertEntityContainsAllOf(Dict, Keywords) == Keywords \subseteq DOMAIN Dict

\* ClassificationExpr.__init__, for one term C of the list: C[0] and C[1]
\* of the source are C[1] and C[2] here.  The message of the first die is
\* built from a name that is not defined.
ClassificationTerm(C) ==
    IF Len(C) < 1 THEN Failed("IndexError")
    ELSE IF C[1] \notin ClassificationKinds THEN Failed("NameError")
    ELSE IF Len(C) < 2 THEN Failed("IndexError")
    ELSE IF Len(C[2]) # 0 THEN Died
    ELSE Ok(C[1])

\* ClassificationExpr.__init__
ClassificationExpr_init(CE) ==
    AllOf([n \in 1..Len(CE) |-> ClassificationTerm(CE[n])])

\* Classifier.__init__
Classifier_init(C) ==
    IF ~assertEntityContainsAllOf(C, ClassifierFields) THEN Died
    ELSE LET ce == ClassificationExpr_init(C.Classification)
         IN  IF ~ce.ok THEN ce
             ELSE Ok([Pc |-> C.Pc, Classification |-> ce.val])

\* Oracle.__init__
Oracle_init(O) == AllOf([n \in 1..Len(O) |-> Classifier_init(O[n])])

\* InjectionRangeInfo.__init__
InjectionRangeInfo_init(FI) ==
    IF ~assertEntityContainsAllOf(FI, RangeFields) THEN Died
    ELSE Ok([Name |-> FI.Name,
             StartTime |-> FI.StartTime, EndTime |-> FI.EndTime,
             StartAddress |-> FI.StartAddress,
             EndAddress |-> FI.EndAddress])

\* BreakpointInfo.__init__
BreakpointInfo_init(BI) ==
    IF ~assertEntityContainsAllOf(BI, BreakpointFields) THEN Died
    ELSE Ok([Address |-> BI.Address, Count |-> BI.Count])

\* Fault.__init__
Fault_init(IS) ==
    IF ~assertEntityContainsAllOf(IS, FaultFields) THEN Died
    ELSE LET bp == BreakpointInfo_init(IS.Breakpoint)
         IN  IF ~bp.ok THEN bp
             ELSE IF "Effect" \in DOMAIN IS /\ IS.Effect \notin Effects
                  THEN Died
             ELSE Ok([Id |-> IS.Id, Time |-> IS.Time,
                      Address |-> IS.Address, Width |-> IS.Width,
                      BreakpointInfo |-> bp.val,
                      Instruction |-> IS.Instruction,
                      Disassembly |-> IS.Disassembly,
                      Effect |-> IF "Effect" \in DOMAIN IS
                                 THEN IS.Effect ELSE None])

\* InstructionSkip.__init__
InstructionSkip_init(IS) ==
    IF ~assertEntityContainsAllOf(IS, InstructionSkipFields) THEN Died
    ELSE LET f == Fault_init(IS)
         IN  IF ~f.ok THEN f
             ELSE Ok(f.val @@ [Executed |-> IS.Executed,
                               FaultedInstr |-> IS.FaultedInstr,
                               Kind |-> "InstructionSkip"])

\* CorruptRegDef.__init__
CorruptRegDef_init(IS) ==
    IF ~assertEntityContainsAllOf(IS, CorruptRegDefFields) THEN Died
    ELSE LET f == Fault_init(IS)
         IN  IF ~f.ok THEN f
             ELSE Ok(f.val @@ [FaultedReg |-> IS.FaultedReg,
                               Kind |-> "CorruptRegDef"])

\* Fault.get
Fault_get(FaultModel, IS) ==
    IF FaultModel = "InstructionSkip" THEN InstructionSkip_init(IS)
    ELSE IF FaultModel = "CorruptRegDef" THEN CorruptRegDef_init(IS)
    ELSE Died

\* FaultInjectionCampaign.__init__, on the document y read from the file.
FaultInjectionCampaign_init(y) ==
    IF ~assertEntityContainsAllOf(y, CampaignFields) THEN Died
    ELSE IF y.FaultModel \notin FaultModels THEN Died
    ELSE LET ranges == AllOf([n \in 1..Len(y.InjectionRangeInfo) |->
                         InjectionRangeInfo_init(y.InjectionRangeInfo[n])])
             oracle == Oracle_init(y.Oracle)
             faults == AllOf([k \in 1..Len(y.Campaign) |->
                                 Fault_get(y.FaultModel, y.Campaign[k])])
         IN  IF ~ranges.ok THEN ranges
             ELSE IF ~oracle.ok THEN oracle
             ELSE IF ~faults.ok THEN faults
             ELSE Ok([Image |-> y.Image,
                      ReferenceTrace |-> y.ReferenceTrace,
                      MaxTraceTime |-> y.MaxTraceTime,
                      ProgramEntryAddress |-> y.ProgramEntryAddress,
                      ProgramEndAddress |-> y.ProgramEndAddress,
                      FaultModel |-> y.FaultModel,
                      InjectionRangeInfo |-> ranges.val,
                      Oracle |-> oracle.val,
                      Campaign |-> faults.val])

\* ClassificationExpr.__repr__ puts the texts of its terms, each of them
\* '"Kind",[]', in one pair of brackets: read back, the terms are the
\* elements of one list.
RECURSIVE ClassificationExpr_repr(_)
ClassificationExpr_repr(terms) ==
    IF terms = <<>> THEN <<>>
    ELSE <<Head(terms), <<>>>> \o ClassificationExpr_repr(Tail(terms))

\* Classifier.__repr__ puts that text in one more pair of brackets.
Classifier_repr(C) ==
    [Pc |-> C.Pc,
     Classification |-> <<ClassificationExpr_repr(C.Classification)>>]

\* InjectionRangeInfo.__repr__
InjectionRangeInfo_repr(fi) ==
    [Name |-> fi.Name, StartTime |-> fi.StartTime, EndTime |-> fi.EndTime,
     StartAddress |-> fi.StartAddress, EndAddress |-> fi.EndAddress]

\* Fault.__repr__: Effect is written when there is one.
Fault_repr(F) ==
    LET base == [Id |-> F.Id, Time |-> F.Time, Address |-> F.Address,
                 Instruction |-> F.Instruction, Width |-> F.Width,
                 Breakpoint |-> [Address |-> F.BreakpointInfo.Address,
                                 Count |-> F.BreakpointInfo.Count],
                 Disassembly |-> F.Disassembly]
    IN  IF F.Effect # None THEN base @@ [Effect |-> F.Effect] ELSE base

\* InstructionSkip.__repr__ and CorruptRegDef.__repr__
Variant_repr(F) ==
    IF F.Kind = "InstructionSkip"
    THEN Fault_repr(F) @@ [Executed |-> F.Executed,
                           FaultedInstr |-> F.FaultedInstr]
    ELSE Fault_repr(F) @@ [FaultedReg |-> F.FaultedReg]

\* FaultInjectionCampaign.__repr__, as the document yaml.safe_load reads
\* from the text (the campaigns explored have no empty list and no
\* negative number).
FaultInjectionCampaign_repr(c) ==
    [FaultInjectionCampain |-> "campaign.yml",
     Image |-> c.Image,
     ReferenceTrace |-> c.ReferenceTrace,
     MaxTraceTime |-> c.MaxTraceTime,
     ProgramEntryAddress |-> c.ProgramEntryAddress,
     ProgramEndAddress |-> c.ProgramEndAddress,
     FaultModel |-> c.FaultModel,
     InjectionRangeInfo |->
         [n \in 1..Len(c.InjectionRangeInfo) |->
             InjectionRangeInfo_repr(c.InjectionRangeInfo[n])],
     Oracle |-> [n \in 1..Len(c.Oracle) |-> Classifier_repr(c.Oracle[n])],
     Campaign |-> [k \in 1..Len(c.Campaign) |-> Variant_repr(c.Campaign[k])]]

\* FaultInjectionCampaign.saveToFile: the new content of the file.
saveToFile(c) == FaultInjectionCampaign_repr(c)

(***************************************************************************)
(* The campaign files explored.                                            *)
(***************************************************************************)
TermKinds == {"success", "crash"}

\* The Classification lists: up to MaxTerms terms, without checkers.
DocTermLists ==
    UNION {[1..n -> {<<k, <<>>>> : k \in TermKinds}] : n \in 0..MaxTerms}

DocRange ==
    [Name |-> "main", StartTime |-> 0, EndTime |-> 5,
     StartAddress |-> 0, EndAddress |-> 2]

DocFault(fm, eff) ==
    LET base == [Id |-> 7, Time |-> 10, Address |-> 2, Width |-> 16,
                 Breakpoint |-> [Address |-> 2, Count |-> 0],
                 Instruction |-> 17922, Disassembly |-> "MOVS r0,#1"]
        model == IF fm = "CorruptRegDef" THEN [FaultedReg |-> "R0"]
                 ELSE [Executed |-> TRUE, FaultedInstr |-> 18112]
    IN  IF eff = None THEN base @@ model
        ELSE base @@ model @@ [Effect |-> eff]

Doc(fm, terms, eff) ==
    [Image |-> "image.elf", ReferenceTrace |-> "image.trace",
     MaxTraceTime |-> 100, ProgramEntryAddress |-> 0,
     ProgramEndAddress |-> 6, FaultModel |-> fm,
     InjectionRangeInfo |-> <<DocRange>>,
     Oracle |-> <<[Pc |-> 4, Classification |-> terms]>>,
     Campaign |-> <<DocFault(fm, eff)>>]

ValidDocs ==
    {Doc(fm, terms, eff) :
        fm \in FaultModels, terms \in DocTermLists,
        eff \in Effects \cup {None}}

\* Mapping m without key f.
Without(m, f) == [k \in DOMAIN m \ {f} |-> m[k]]

BaseDoc(fm) == Doc(fm, << <<"success", <<>>>> >>, None)

\* The documents with one required field missing, at one of the nesting
\* levels, and those with a value outside its enumeration.
InvalidDocs ==
    UNION {
        LET B == BaseDoc(fm)
        IN  {Without(B, f) : f \in DOMAIN B}
            \cup {[B EXCEPT !.InjectionRangeInfo[1] = Without(@, f)] :
                     f \in DOMAIN B.InjectionRangeInfo[1]}
            \cup {[B EXCEPT !.Oracle[1] = Without(@, f)] :
                     f \in DOMAIN B.Oracle[1]}
            \cup {[B EXCEPT !.Campaign[1] = Without(@, f)] :
                     f \in DOMAIN B.Campaign[1]}
            \cup {[B EXCEPT !.Campaign[1].Breakpoint = Without(@, f)] :
                     f \in DOMAIN B.Campaign[1].Breakpoint}
            \cup {[B EXCEPT !.FaultModel = "DataCorruption"],
                  [B EXCEPT !.Campaign[1] = @ @@ [Effect |-> "detected"]],
                  [B EXCEPT !.Oracle[1].Classification =
                                << <<"undecided", <<>>>> >>],
                  [B EXCEPT !.Oracle[1].Classification =
                                << <<"success", <<>>>>,
                                   <<"detected", <<>>>> >>]} :
        fm \in FaultModels}

\* A document whose classification term has a checker.
CheckerDoc ==
    [BaseDoc("InstructionSkip") EXCEPT !.Oracle[1].Classification =
        << <<"success", <<[Reg |-> "R0", Cmp |-> "EQ", Value |-> 0]>> >> >>]

Docs == ValidDocs \cup InvalidDocs \cup {CheckerDoc}

nonloadvars == <<runvars, toolvars, clivars, idsvars>>

LoadInit ==
    /\ RunIdle
    /\ ToolIdle
    /\ CliIdle
    /\ IdsIdle
    /\ doc \in Docs
    /\ obj = None
    /\ obj2 = None
    /\ lpc = "start"
    /\ err = None
    /\ evals = None

\* FIC = FaultInjectionCampaign(filename)
Load ==
    /\ lpc = "start"
    /\ LET r == FaultInjectionCampaign_init(doc)
       IN  IF r.ok
           THEN /\ obj' = r.val
                /\ lpc' = "loaded"
                /\ UNCHANGED err
           ELSE /\ err' = r.err
                /\ lpc' = "failed"
                /\ UNCHANGED obj
    /\ UNCHANGED <<nonloadvars, doc, obj2, evals>>

\* C.eval() for every classifier C of FIC.Oracle
EvalOracle ==
    /\ lpc = "loaded"
    /\ evals' = [n \in 1..Len(obj.Oracle) |-> ClassifierEval(obj.Oracle[n])]
    /\ lpc' = "evaluated"
    /\ UNCHANGED <<nonloadvars, doc, obj, obj2, err>>

\* FIC.saveToFile(filename)
SaveToFile ==
    /\ lpc \in {"loaded", "evaluated"}
    /\ doc' = saveToFile(obj)
    /\ lpc' = "saved"
    /\ UNCHANGED <<nonloadvars, obj, obj2, err, evals>>

\* FaultInjectionCampaign(filename), on the file saveToFile wrote
Reload ==
    /\ lpc = "saved"
    /\ LET r == FaultInjectionCampaign_init(doc)
       IN  IF r.ok
           THEN /\ obj2' = r.val
                /\ lpc' = "reloaded"
                /\ UNCHANGED err
           ELSE /\ err' = r.err
                /\ lpc' = "refailed"
                /\ UNCHANGED obj2
    /\ UNCHANGED <<nonloadvars, doc, obj, evals>>

LoadNext ==
    \/ Load
    \/ EvalOracle
    \/ SaveToFile
    \/ Reload

LoadSpec == LoadInit /\ [][LoadNext]_vars

(***************************************************************************)
(* The campaign maintenance tool (campaign.py): main, on the campaign      *)
(* files and options of its command line.                                  *)
(***************************************************************************)

\* A campaign of six faults, one of them without Effect and two of them with
\* the same Effect.
SummaryEffects == <<"caught", "crash", "noeffect", None, "success", "success">>

SummaryDoc ==
    [BaseDoc("InstructionSkip") EXCEPT !.Campaign =
        [k \in 1..Len(SummaryEffects) |->
            [DocFault("InstructionSkip", SummaryEffects[k]) EXCEPT
                !.Id = k - 1]]]

\* The files named on the command line: three that load, of both fault
\* models, and two that do not.
CliDocs ==
    {BaseDoc("InstructionSkip"),
     Doc("CorruptRegDef",
         << <<"crash", <<>>>>, <<"success", <<>>>> >>, "caught"),
     Without(BaseDoc("InstructionSkip"), "Oracle"),
     [BaseDoc("CorruptRegDef") EXCEPT !.Campaign[1].Breakpoint =
                                          Without(@, "Count")],
     SummaryDoc}

\* The options: an offset option that is not given is None, and like 0 it
\* applies no offset (the offsets given are not negative).
CliOptions ==
    [offset_fault_time_by : {0, MaxOffset},
     offset_fault_address_by : {0, 2 * MaxOffset},
     summary : BOOLEAN,
     dry_run : BOOLEAN]

nonclivars == <<runvars, toolvars, loadvars, idsvars>>

CliInit ==
    /\ RunIdle
    /\ ToolIdle
    /\ LoadIdle
    /\ IdsIdle
    /\ files \in UNION {[1..n -> CliDocs] : n \in 1..MaxFiles}
    /\ opts \in CliOptions
    /\ argi = 1
    /\ ExitValue = 0
    /\ stdout = <<>>
    /\ parsed = <<>>
    /\ cli = "loop"

\* The campaign main works on after the offset options were applied.
WithOffsets(FIC) ==
    LET t == IF opts.offset_fault_time_by # 0
             THEN offsetAllFaultsTimeBy(FIC, opts.offset_fault_time_by)
             ELSE FIC
    IN  IF opts.offset_fault_address_by # 0
        THEN offsetAllFaultsAddressBy(t, opts.offset_fault_address_by)
        ELSE t

\* The keys of the dict summary() returns, in the order it inserts them.
StatKeys ==
    <<"success", "crash", "noeffect", "caught", "undecided", "notrun",
      "total">>

\* The order of Python strings: that of their characters, a prefix first.
Alphabet ==
    <<"a", "b", "c", "d", "e", "f", "g", "h", "i", "j", "k", "l", "m",
      "n", "o", "p", "q", "r", "s", "t", "u", "v", "w", "x", "y", "z">>

Ord(ch) == CHOOSE n \in 1..Len(Alphabet) : Alphabet[n] = ch

\* The characters of the keys.
Chars(k) ==
    CASE k = "success"   -> <<"s", "u", "c", "c", "e", "s", "s">>
      [] k = "crash"     -> <<"c", "r", "a", "s", "h">>
      [] k = "noeffect"  -> <<"n", "o", "e", "f", "f", "e", "c", "t">>
      [] k = "caught"    -> <<"c", "a", "u", "g", "h", "t">>
      [] k = "undecided" -> <<"u", "n", "d", "e", "c", "i", "d", "e", "d">>
      [] k = "notrun"    -> <<"n", "o", "t", "r", "u", "n">>
      [] k = "total"     -> <<"t", "o", "t", "a", "l">>

RECURSIVE SeqLess(_, _)
SeqLess(a, b) ==
    IF b = <<>> THEN FALSE
    ELSE IF a = <<>> THEN TRUE
    ELSE IF Ord(Head(a)) # Ord(Head(b)) THEN Ord(Head(a)) < Ord(Head(b))
    ELSE SeqLess(Tail(a), Tail(b))

StrLess(a, b) == SeqLess(Chars(a), Chars(b))

\* list.remove: without the first element equal to x.
RECURSIVE list_remove(_, _)
list_remove(l, x) ==
    IF l = <<>> THEN l
    ELSE IF Head(l) = x THEN Tail(l)
    ELSE <<Head(l)>> \o list_remove(Tail(l), x)

\* A list that sort() leaves in the order it had.
list_sort_Unsorted(l) == l

\* x put into the sorted list l, after the elements not greater than it.
RECURSIVE SortedInsert(_, _)
SortedInsert(l, x) ==
    IF l = <<>> THEN <<x>>
    ELSE IF StrLess(x, Head(l)) THEN <<x>> \o l
    ELSE <<Head(l)>> \o SortedInsert(Tail(l), x)

\* list.sort on a list of strings: ascending, equal elements in their order.
RECURSIVE list_sort(_)
list_sort(l) ==
    IF l = <<>> THEN l
    ELSE SortedInsert(list_sort(SubSeq(l, 1, Len(l) - 1)), l[Len(l)])

\* The summary line main prints for the dict s: "<total> faults: " and then
\* "<count> <key>" for each key of the sorted list, joined by ", ".
SummaryLine(s) ==
    LET effects == list_sort(list_remove(StatKeys, "total"))
    IN  [total |-> s["total"],
         res |-> [n \in 1..Len(effects) |-> <<s[effects[n]], effects[n]>>]]

\* What main prints for a campaign that loaded.
Printed(FIC) ==
    (IF opts.summary THEN <<[summary |-> SummaryLine(summary(FIC))]>>
     ELSE <<>>)
    \o (IF opts.dry_run THEN <<[dump |-> FaultInjectionCampaign_repr(FIC)]>>
        ELSE <<>>)

\* One iteration of the loop of main over options.campaign_files.
ProcessFile ==
    /\ cli = "loop"
    /\ argi <= Len(files)
    /\ LET r == FaultInjectionCampaign_init(files[argi])
       IN  IF ~r.ok
           THEN /\ stdout' = Append(stdout, [exception |-> argi])
                /\ ExitValue' = 1
                /\ parsed' = Append(parsed, FALSE)
                /\ UNCHANGED files
           ELSE /\ stdout' = stdout \o Printed(WithOffsets(r.val))
                /\ files' = IF opts.dry_run THEN files
                            ELSE [files EXCEPT ![argi] =
                                     saveToFile(WithOffsets(r.val))]
                /\ parsed' = Append(parsed, TRUE)
                /\ UNCHANGED ExitValue
    /\ argi' = argi + 1
    /\ UNCHANGED <<nonclivars, opts, cli>>

\* return ExitValue
Return ==
    /\ cli = "loop"
    /\ argi > Len(files)
    /\ cli' = "returned"
    /\ UNCHANGED <<nonclivars, files, opts, argi, ExitValue, stdout, parsed>>

CliNext ==
    \/ ProcessFile
    \/ Return

CliSpec == CliInit /\ [][CliNext]_vars

(***************************************************************************)
(* The --fault-ids option (PAF/run_model.py): parseFaultIds, on the text   *)
(* of the option, a sequence of characters.                                *)
(***************************************************************************)
MaxId == 3
MaxTokens == 2

DigitChars == <<"0", "1", "2", "3", "4", "5", "6", "7", "8", "9">>

\* c is matched by \d, and str.isnumeric holds of it.
IsDigit(c) == \E n \in 1..Len(DigitChars) : DigitChars[n] = c

DigitVal(c) == (CHOOSE n \in 1..Len(DigitChars) : DigitChars[n] = c) - 1

\* str.isnumeric
isnumeric(str) == str # <<>> /\ \A n \in 1..Len(str) : IsDigit(str[n])

\* int(str), for a str of digits
RECURSIVE int(_)
int(str) ==
    IF str = <<>> THEN 0
    ELSE 10 * int(SubSeq(str, 1, Len(str) - 1)) + DigitVal(str[Len(str)])

\* str.split(sep)
RECURSIVE split(_, _)
split(str, sep) ==
    IF \A n \in 1..Len(str) : str[n] # sep THEN <<str>>
    ELSE LET p == CHOOSE n \in 1..Len(str) :
                      /\ str[n] = sep
                      /\ \A m \in 1..(n - 1) : str[m] # sep
         IN  <<SubSeq(str, 1, p - 1)>>
             \o split(SubSeq(str, p + 1, Len(str)), sep)

\* The positions at which id_range, '^(\d+)-(\d+)$', can split str in its two
\* groups: none when it does not match.
id_range_match(str) ==
    {p \in 1..Len(str) :
        /\ str[p] = "-"
        /\ isnumeric(SubSeq(str, 1, p - 1))
        /\ isnumeric(SubSeq(str, p + 1, Len(str)))}

\* A range that leaves its upper bound out.
range_list_Exclusive(lb, ub) == [n \in 1..(ub - 1 - lb) |-> lb + n - 1]

\* list(range(lb, ub))
range_list(lb, ub) == [n \in 1..(ub - lb) |-> lb + n - 1]

\* The loop of parseFaultIds over the split text, from token k on: its list
\* ids, or the die of an unrecognized token.
RECURSIVE ParseLoop(_, _, _)
ParseLoop(toks, k, ids) ==
    IF k > Len(toks) THEN Ok(ids)
    ELSE LET str == toks[k]
             m == id_range_match(str)
         IN  IF m # {}
             THEN LET p  == CHOOSE q \in m : TRUE
                      v1 == int(SubSeq(str, 1, p - 1))
                      v2 == int(SubSeq(str, p + 1, Len(str)))
                      lb == IF v1 < v2 THEN v1 ELSE v2
                      ub == IF v1 > v2 THEN v1 ELSE v2
                  IN  ParseLoop(toks, k + 1, ids \o range_list(lb, ub + 1))
             ELSE IF isnumeric(str)
             THEN ParseLoop(toks, k + 1, Append(ids, int(str)))
             ELSE Died

\* list.sort on the list of the elements of a set of integers.
RECURSIVE sorted_set(_)
sorted_set(S) ==
    IF S = {} THEN <<>>
    ELSE LET m == CHOOSE x \in S : \A y \in S : x <= y
         IN  <<m>> \o sorted_set(S \ {m})

\* parseFaultIds
parseFaultIds(text) ==
    LET r == ParseLoop(split(text, ","), 1, <<>>)
    IN  IF ~r.ok THEN r
        ELSE Ok(sorted_set({r.val[n] : n \in 1..Len(r.val)}))

\* The numbers written in the texts: one digit, or two.
IdValues == (0..MaxId) \cup {10 + MaxId}

\* The decimal digits of v.
RECURSIVE Decimal(_)
Decimal(v) ==
    IF v < 10 THEN <<DigitChars[v + 1]>>
    ELSE Decimal(v \div 10) \o <<DigitChars[(v % 10) + 1]>>

\* What a text is written from: ids (with a leading zero or not), ranges,
\* and the items that are none of the two.
IdItems ==
    [kind : {"id"}, a : IdValues, zero : BOOLEAN]
    \cup [kind : {"range"}, a : IdValues, b : IdValues]
    \cup [kind : {"empty", "dash"}]
    \cup [kind : {"open", "negative"}, a : 0..MaxId]

ItemText(t) ==
    CASE t.kind = "id" ->
             (IF t.zero THEN <<"0">> ELSE <<>>) \o Decimal(t.a)
      [] t.kind = "range" -> Decimal(t.a) \o <<"-">> \o Decimal(t.b)
      [] t.kind = "empty" -> <<>>
      [] t.kind = "dash" -> <<"-">>
      [] t.kind = "open" -> Decimal(t.a) \o <<"-">>
      [] t.kind = "negative" -> <<"-">> \o Decimal(t.a)

\* The items, joined by commas.
RECURSIVE JoinItems(_)
JoinItems(items) ==
    IF Len(items) = 1 THEN ItemText(items[1])
    ELSE ItemText(items[1]) \o <<",">> \o JoinItems(Tail(items))

nonidsvars == <<runvars, toolvars, loadvars, clivars>>

IdsInit ==
    /\ RunIdle
    /\ ToolIdle
    /\ LoadIdle
    /\ CliIdle
    /\ idspec \in UNION {[1..n -> IdItems] : n \in 1..MaxTokens}
    /\ fault_ids = JoinItems(idspec)
    /\ parsed_ids = None
    /\ ppc = "option"

\* options.fault_ids = parseFaultIds(options.fault_ids)
ParseFaultIds ==
    /\ ppc = "option"
    /\ parsed_ids' = parseFaultIds(fault_ids)
    /\ ppc' = IF parsed_ids'.ok THEN "parsed" ELSE "dead"
    /\ UNCHANGED <<nonidsvars, idspec, fault_ids>>

IdsNext == ParseFaultIds

IdsSpec == IdsInit /\ [][IdsNext]_vars

(***************************************************************************)
(* Properties.                                                             *)
(***************************************************************************)
Started == 1..jobs

\* The number of times fault k was claimed by driver thread w.
ClaimsBy(w, k) ==
    Cardinality({n \in 1..Len(ourFaults[w]) : ourFaults[w][n] = k})

\* The driver threads that claimed fault k.
Claimers(k) == {w \in Started : ClaimsBy(w, k) > 0}

AllDone == \A w \in Started : pc[w] = "done"

\* C1: every fault the dispatcher enqueued is claimed by at most one driver
\* thread and at most once, and when all the driver threads have ended
\* normally (on queue.Empty) every selected fault has been claimed by exactly
\* one of them.
C1_ClaimedExactlyOnce ==
    /\ \A k \in FaultIdx :
          /\ Cardinality(Claimers(k)) <= 1
          /\ \A w \in Started : ClaimsBy(w, k) <= 1
    /\ AllDone =>
          \A k \in Selected :
              /\ Cardinality(Claimers(k)) = 1
              /\ \A w \in Claimers(k) : ClaimsBy(w, k) = 1

\* Two driver threads ended normally and each of them claimed a fault.
C1_Witness ==
    /\ jobs > 1
    /\ AllDone
    /\ \E v, w \in Started : v # w /\ ourFaults[v] # <<>> /\ ourFaults[w] # <<>>

\* The fields of the fault driver thread w is processing.
Cur(w) == campaign.Campaign[TheFault[w]]
CurBp(w) == Cur(w).BreakpointInfo.Address
CurCount(w) == Cur(w).BreakpointInfo.Count
ProgramEnd == campaign.ProgramEndAddress

\* Driver thread w takes a step of the decision loop in which the run of the
\* target returned (a stop), resp. raised TimeoutError.
DecideStop(w) ==
    /\ pc[w] = "decide"
    /\ ~timedout'[w]
    /\ pc'[w] # "decide" \/ i'[w] # i[w] \/ IBP'[w] # IBP[w]

DecideTimeout(w) == pc[w] = "decide" /\ timedout'[w]

\* Address a is the Pc of a classifier of the Oracle.
IsClassifierPc(a) ==
    \E n \in 1..Len(campaign.Oracle) : campaign.Oracle[n].Pc = a

\* The first classifier of the Oracle at address a.
FirstClassifierAt(a) ==
    campaign.Oracle[CHOOSE n \in 1..Len(campaign.Oracle) :
                        /\ campaign.Oracle[n].Pc = a
                        /\ \A m \in 1..(n - 1) : campaign.Oracle[m].Pc # a]

\* Address a lies in a declared injection range.
InSomeRange(a) ==
    \E n \in 1..Len(campaign.InjectionRangeInfo) :
        /\ campaign.InjectionRangeInfo[n].StartAddress <= a
        /\ a <= campaign.InjectionRangeInfo[n].EndAddress

\* The encoding that target memory m holds at address a, for fault f.
LiveAt(m, a, f) ==
    IF f.Width = 16 THEN m[a] ELSE m[a] * HalfMod + m[a + 2]

\* C2 (as claimed): in a run in which no driver thread hit a fatal
\* consistency error, once all driver threads have ended the Effect of every
\* selected fault has been assigned exactly once, to one of the five effects,
\* by the thread that claimed the fault.
C2_EffectAssignedOnce ==
    (\A w \in Started : pc[w] \in {"done", "raised"}) =>
        \A k \in Selected :
            /\ nset[k] = 1
            /\ Effect[k] \in Effects
            /\ setBy[k] \in Claimers(k)

\* C3: a driver thread claims its next fault only after the fault it claimed
\* before has its Effect set, restore() has run for it and its progress has
\* been reported.
C3_OneFaultAtATime ==
    \A w \in Started :
        /\ updates[w] <= restores[w]
        /\ restores[w] <= Len(ourFaults[w])
        /\ \A n \in 1..(Len(ourFaults[w]) - 1) :
              /\ Effect[ourFaults[w][n]] \in Effects
              /\ restores[w] >= n
              /\ updates[w] >= n

\* A driver thread has just claimed its second fault.
C3_Witness ==
    \E w \in Started : Len(ourFaults[w]) = 2 /\ pc[w] = "reset"

\* C4: in the decision phase a stop at ProgramEndAddress classifies the fault
\* noeffect and leaves the loop; neither the re-entry restore nor the oracle
\* is applied, also when the address is the held injection breakpoint or a
\* classifier Pc.
C4_ProgramEndFirst ==
    [][\A w \in Workers :
          (DecideStop(w) /\ tpc'[w] = ProgramEnd) =>
              /\ Effect'[TheFault[w]] = "noeffect"
              /\ nset'[TheFault[w]] = nset[TheFault[w]] + 1
              /\ pc'[w] = "restore"
              /\ IBP'[w] = IBP[w]
              /\ mem'[w] = mem[w]
              /\ i'[w] = i[w]]_vars

\* A stop at a ProgramEndAddress that is the held injection breakpoint and
\* a classifier Pc was classified noeffect.
C4_Witness ==
    \E w \in Started :
        /\ pc[w] = "restore"
        /\ ~timedout[w]
        /\ tpc[w] = ProgramEnd
        /\ IBP[w] = ProgramEnd
        /\ IsClassifierPc(ProgramEnd)
        /\ Effect[TheFault[w]] = "noeffect"

\* C5: in the decision phase a stop at a classifier Pc that is neither
\* ProgramEndAddress nor the held injection breakpoint sets Effect to what
\* the (first) classifier at that Pc evaluates to, undecided included, and
\* leaves the loop for restore, not for the fallback classification.
C5_OracleMatch ==
    [][\A w \in Workers :
          (/\ DecideStop(w)
           /\ tpc'[w] # ProgramEnd
           /\ ~(IBP[w] # NoIBP /\ IBP[w] = tpc'[w])
           /\ IsClassifierPc(tpc'[w])) =>
              /\ Effect'[TheFault[w]] =
                    (IF FirstClassifierAt(tpc'[w]).Classification = <<>>
                     THEN "undecided"
                     ELSE FirstClassifierAt(tpc'[w]).Classification[1])
              /\ nset'[TheFault[w]] = nset[TheFault[w]] + 1
              /\ pc'[w] = "restore"]_vars

\* The oracle classified a fault undecided.
C5_Witness ==
    \E w \in Started :
        /\ pc[w] = "restore"
        /\ ~timedout[w]
        /\ tpc[w] # ProgramEnd
        /\ IsClassifierPc(tpc[w])
        /\ Effect[TheFault[w]] = "undecided"
        /\ nset[TheFault[w]] = 1

\* A stop of the decision loop that matches no condition.
SpinStop(w) ==
    /\ DecideStop(w)
    /\ tpc'[w] # ProgramEnd
    /\ ~(IBP[w] # NoIBP /\ IBP[w] = tpc'[w])
    /\ ~IsClassifierPc(tpc'[w])

\* C6 (as claimed): a watchdog timeout of a run attempt consumes one unit of
\* the spin budget and the target is run again while budget remains.
C6_TimeoutConsumesBudget ==
    [][\A w \in Workers :
          DecideTimeout(w) =>
              /\ i'[w] = i[w] + 1
              /\ (i[w] + 1 < MaxSpin => pc'[w] = "decide")]_vars

\* C6 (amended): a stop that matches no condition consumes exactly one unit of
\* the spin budget, the target is run again while budget remains and the
\* fallback classification is reached when the 3 units are used up; a watchdog
\* timeout consumes no unit and leaves the loop for the fallback at once.
C6_SpinBudget ==
    /\ [](\A w \in Workers :
            pc[w] = "fallback" => (timedout[w] \/ i[w] = MaxSpin))
    /\ [][\A w \in Workers :
            /\ SpinStop(w) =>
                  /\ i'[w] = i[w] + 1
                  /\ pc'[w] = IF i[w] + 1 < MaxSpin THEN "decide"
                              ELSE "fallback"
            /\ DecideTimeout(w) =>
                  /\ i'[w] = i[w]
                  /\ pc'[w] = "fallback"]_vars

\* The spin budget was used up by stops that matched no condition.
C6_Witness ==
    \E w \in Started :
        pc[w] = "fallback" /\ ~timedout[w] /\ i[w] = MaxSpin

\* C7 (as claimed): when the decision loop ends without OracleMet the fault is
\* classified undecided if the program counter lies in a declared injection
\* range and crash otherwise, and the thread goes on to restore.
C7_FallbackClassification ==
    [][\A w \in Workers :
          (pc[w] = "fallback" /\ pc'[w] # "fallback") =>
              /\ pc'[w] = "restore"
              /\ Effect'[TheFault[w]] =
                    (IF InSomeRange(tpc[w]) THEN "undecided" ELSE "crash")]_vars

\* C8: for InstructionSkip, when the live instruction at the injection point
\* differs from the recorded Instruction the thread ends with a fatal error,
\* target memory is left as loaded and the Effect of the fault is not set.
C8_MismatchAborts ==
    /\ [](\A w \in Workers :
            pc[w] = "dead" =>
                /\ mem[w] = Image
                /\ Effect[TheFault[w]] = None
                /\ nset[TheFault[w]] = 0)
    /\ [][\A w \in Workers :
            (/\ pc[w] = "inject"
             /\ pc'[w] # "inject"
             /\ campaign.FaultModel = "InstructionSkip"
             /\ LiveAt(mem[w], tpc[w], Cur(w)) # Cur(w).Instruction) =>
                /\ pc'[w] = "dead"
                /\ mem'[w] = mem[w]
                /\ Effect' = Effect]_vars

\* A thread died at the injection point on an instruction mismatch.
C8_Witness ==
    \E w \in Started :
        /\ campaign.FaultModel = "InstructionSkip"
        /\ pc[w] = "dead"
        /\ tpc[w] = CurBp(w)
        /\ LiveAt(mem[w], tpc[w], Cur(w)) # Cur(w).Instruction
        /\ mem[w] = Image

\* C9: a fault is injected only after the target stopped at the injection
\* breakpoint exactly 1 + Count times since the reset; a stop elsewhere is not
\* counted and is no error, the target is run again.
C9_HitCount ==
    /\ [](\A w \in Workers :
            pc[w] \in {"inject", "writereg", "decide", "fallback", "restore",
                       "update"}
                => hits[w] = 1 + CurCount(w))
    /\ [][\A w \in Workers :
            (/\ pc[w] = "runloop"
             /\ tpc'[w] # tpc[w]
             /\ tpc'[w] # CurBp(w)) =>
                /\ cnt'[w] = cnt[w]
                /\ hits'[w] = hits[w]
                /\ pc'[w] = "runloop"]_vars

\* A fault with Count 1 is about to be injected, after two hits.
C9_Witness ==
    \E w \in Started :
        pc[w] = "inject" /\ CurCount(w) = 1 /\ hits[w] = 2

\* C10: the injection step runs only with the program counter at the fault's
\* breakpoint address; a mismatch after runToInjectionPoint's loop ends the
\* thread with a fatal error and nothing is written to the target.
C10_InjectOnlyAtBreakpoint ==
    /\ [](\A w \in Workers : pc[w] = "inject" => tpc[w] = CurBp(w))
    /\ [][\A w \in Workers :
            /\ (pc[w] = "checkpc" /\ pc'[w] # "checkpc" /\ tpc[w] # CurBp(w))
                  => (pc'[w] = "dead" /\ mem'[w] = mem[w] /\ regs'[w] = regs[w])
            /\ (pc[w] \in {"checkpc", "inject", "writereg"}
                  /\ (mem'[w] # mem[w] \/ regs'[w] # regs[w]))
                  => tpc[w] = CurBp(w)]_vars

\* A thread died because the target was not at the injection point.
C10_Witness ==
    \E w \in Started :
        pc[w] = "dead" /\ TheFault[w] # 0 /\ tpc[w] # CurBp(w)

\* The faults still on the queue.
Queued == {Faults[n] : n \in 1..Len(Faults)}

Ended(w) == pc[w] \in {"done", "dead", "raised"}

\* C11 (as claimed): whichever way the decision phase of a fault ended, the
\* no-argument restore has run for it once the thread is past it, and no
\* injection breakpoint is held when runToInjectionPoint starts.
C11_RestoreAlways ==
    \A w \in Started :
        /\ pc[w] = "setbp" => IBP[w] = NoIBP
        /\ pc[w] \in {"update", "get", "done", "raised"}
              => restores[w] = Len(ourFaults[w])

\* C12: in the decision phase a stop at the held injection breakpoint, other
\* than ProgramEndAddress, writes the original Instruction back at the
\* fault's Address and nowhere else, leaves the program counter where the
\* target stopped, clears the breakpoint, and the loop goes on with the spin
\* counter and the Effect unchanged.
C12_Reentry ==
    [][\A w \in Workers :
          (/\ DecideStop(w)
           /\ IBP[w] # NoIBP
           /\ tpc'[w] = IBP[w]
           /\ tpc'[w] # ProgramEnd) =>
              /\ LiveAt(mem'[w], Cur(w).Address, Cur(w)) = Cur(w).Instruction
              /\ \A a \in MemAddrs :
                    (a # Cur(w).Address
                       /\ ~(Cur(w).Width = 32 /\ a = Cur(w).Address + 2))
                    => mem'[w][a] = mem[w][a]
              /\ IBP'[w] = NoIBP
              /\ i'[w] = i[w]
              /\ pc'[w] = "decide"
              /\ Effect' = Effect]_vars

\* An InstructionSkip thread is back in the decision loop after a re-entry:
\* the breakpoint is gone and the memory is as loaded again.
C12_Witness ==
    \E w \in Started :
        /\ campaign.FaultModel = "InstructionSkip"
        /\ pc[w] = "decide"
        /\ IBP[w] = NoIBP
        /\ tpc[w] = CurBp(w)
        /\ mem[w] = Image
        /\ i[w] = 0

\* C13: for CorruptRegDef no injection breakpoint is held when the faulted
\* register is written nor at any time in the decision phase, so no stop of
\* the decision loop is taken for a re-entry.
C13_NoBreakpointHeld ==
    \A w \in Workers :
        (campaign.FaultModel = "CorruptRegDef"
           /\ pc[w] \in {"writereg", "decide", "fallback", "restore"}) =>
            /\ IBP[w] = NoIBP
            /\ \A a \in Addrs : StopBranch(w, a) # "reentry"

\* A CorruptRegDef thread stopped again at the address of its injection
\* breakpoint and the stop was counted as a spin.
C13_Witness ==
    \E w \in Started :
        /\ campaign.FaultModel = "CorruptRegDef"
        /\ pc[w] = "decide"
        /\ ~timedout[w]
        /\ i[w] >= 1
        /\ tpc[w] = CurBp(w)

\* C14: a thread at the claim is never blocked: it can take a fault or, when
\* the queue is empty, end at once, whatever the other threads are doing.
C14_ClaimNeverBlocks ==
    \A w \in Started :
        pc[w] = "get" =>
            /\ Faults # <<>> => ENABLED Get(w)
            /\ Faults = <<>> => ENABLED Empty(w)

\* A thread ended on the empty queue while another one is still in its
\* decision loop.
C14_Witness ==
    \E v, w \in Started : pc[v] = "done" /\ pc[w] = "decide"

\* C15 (as claimed): a thread that claimed a fault eventually sets its Effect
\* or ends with an error, also while it runs to the injection point.
C15_EventuallyClassified ==
    \A w \in Workers :
        (pc[w] = "reset") ~>
            (pc[w] \in {"restore", "dead", "raised"})

\* What bounds the decision loop of driver thread w: the spin budget left,
\* and the one re-entry that a held injection breakpoint allows.
Measure(w) == (MaxSpin - i[w]) + (IF IBP[w] # NoIBP THEN 1 ELSE 0)

\* Driver thread w took a step.
Stepped(w) ==
    <<pc[w], tpc[w], mem[w], regs[w], i[w], IBP[w], timedout[w]>>'
        # <<pc[w], tpc[w], mem[w], regs[w], i[w], IBP[w], timedout[w]>>

\* C15 (amended): once the injection point is reached the thread is never
\* blocked, every stop that keeps it in the decision loop uses up the spin
\* budget or the one re-entry, so that the loop ends after a bounded number
\* of runs; the thread then has the Effect set (and goes on to restore) or
\* ends with an error.
C15_DecisionTerminates ==
    /\ [](\A w \in Workers :
            /\ pc[w] \in {"inject", "writereg", "decide", "fallback"}
                  => ENABLED Driver(w)
            /\ pc[w] = "decide" => Measure(w) >= 1
            /\ pc[w] = "restore" => Effect[TheFault[w]] \in Effects)
    /\ [][\A w \in Workers :
            /\ (pc[w] = "decide" /\ Stepped(w)) =>
                  /\ pc'[w] \in {"decide", "restore", "fallback", "dead"}
                  /\ pc'[w] = "decide" => Measure(w)' < Measure(w)
            /\ (pc[w] \in {"inject", "writereg"} /\ Stepped(w)) =>
                  pc'[w] \in {"writereg", "decide", "dead"}
            /\ (pc[w] = "fallback" /\ Stepped(w)) =>
                  pc'[w] \in {"restore", "raised"}]_vars

\* A fault was classified by the oracle after two stops that matched no
\* condition.
C15_Witness ==
    \E w \in Started :
        pc[w] = "restore" /\ ~timedout[w] /\ i[w] = MaxSpin - 1

\* C16: the per-effect counts are computed and the results are written only
\* when every driver thread has been joined, hence has ended.
C16_AggregateAfterJoin ==
    (main \in {"close", "save", "shutdown", "dead"}) =>
        /\ joined = jobs
        /\ \A w \in Started : Ended(w)

\* The results of a run with two driver threads were saved.
C16_Witness ==
    /\ jobs > 1
    /\ main = "shutdown"
    /\ results = Effect
    /\ \E e \in Effects : Cnt[e] > 0

\* C17: the queue only ever loses its head; a claimed fault is not on the
\* queue again and has one claimer, also when that thread has ended with a
\* fatal error and left the Effect unset.
C17_NoRetry ==
    /\ [](\A w \in Started : \A n \in 1..Len(ourFaults[w]) :
            /\ ourFaults[w][n] \notin Queued
            /\ Claimers(ourFaults[w][n]) = {w}
            /\ ClaimsBy(w, ourFaults[w][n]) = 1)
    /\ [][Faults' = Faults \/ Faults' = Tail(Faults)]_vars

\* A thread died on its fault, the Effect is unset, and the other thread
\* found the queue empty.
C17_Witness ==
    \E v, w \in Started :
        /\ pc[w] = "dead"
        /\ Effect[TheFault[w]] = None
        /\ pc[v] = "done"

\* C18: a fatal error in one driver thread ends that thread only: the queue
\* and the other threads are left as they are, and a thread at the claim
\* can still take the next fault.
C18_OnlyThatWorker ==
    /\ [](\A v \in Started :
            ((\E w \in Started : pc[w] = "dead")
               /\ pc[v] = "get" /\ Faults # <<>>) => ENABLED Get(v))
    /\ [][\A w \in Workers :
            (pc[w] # "dead" /\ pc'[w] = "dead") =>
                /\ Faults' = Faults
                /\ main' = main
                /\ \A v \in Workers \ {w} : pc'[v] = pc[v]]_vars

\* After a thread died on the first fault, the other thread classified the
\* second one and ended on the empty queue.
C18_Witness ==
    \E v, w \in Started :
        /\ pc[w] = "dead"
        /\ pc[v] = "done"
        /\ TheFault[v] > TheFault[w]
        /\ TheFault[w] # 0
        /\ Effect[TheFault[v]] \in Effects

\* The number of faults driver thread w is done with.
Completed(w) ==
    IF pc[w] \in {"get", "done", "off"} THEN Len(ourFaults[w])
    ELSE Len(ourFaults[w]) - 1

RECURSIVE SumCompleted(_)
SumCompleted(w) == IF w = 0 THEN 0 ELSE Completed(w) + SumCompleted(w - 1)

\* C19: the progress bar counts the completed faults: one update per fault
\* a thread is done with, made after the fault's Effect was set, and as many
\* updates as selected faults when all threads ended normally.
C19_ProgressPerFault ==
    /\ pbar = SumCompleted(NWorkers)
    /\ \A w \in Started :
          /\ updates[w] = Completed(w)
          /\ \A n \in 1..updates[w] : Effect[ourFaults[w][n]] \in Effects
    /\ AllDone => pbar = CntInjection

\* Two threads ended normally after one update each.
C19_Witness ==
    /\ jobs > 1
    /\ AllDone
    /\ pbar = 2
    /\ \A w \in 1..2 : updates[w] = 1

\* The number of faults of the tool's campaign whose Effect is e.
NumWithEffect(e) ==
    Cardinality({k \in 1..Len(fic.Campaign) : fic.Campaign[k].Effect = e})

\* C20: whatever offsets were applied and Effects assigned, summary() returns
\* total equal to the number of faults, the six buckets sum up to total, and
\* every fault is counted in the bucket of its Effect, a fault without Effect
\* in notrun only.
C20_SummaryTotals ==
    tool = "summarized" =>
        /\ stats["total"] = Len(fic.Campaign)
        /\ stats["success"] + stats["crash"] + stats["noeffect"]
              + stats["caught"] + stats["undecided"] + stats["notrun"]
              = stats["total"]
        /\ stats["notrun"] = NumWithEffect(None)
        /\ \A e \in Effects : stats[e] = NumWithEffect(e)

\* summary() was called after offsets and an Effect assignment, on a campaign
\* with a fault that has an Effect and one that has none.
C20_Witness ==
    /\ tool = "summarized"
    /\ nops = MaxOps
    /\ tn >= 1
    /\ an >= 1
    /\ stats["notrun"] = 1
    /\ stats["total"] = 2
    /\ fic.Campaign[1].Time # 10
    /\ fic.Campaign[1].Address # 2

\* The time fields of campaign c: of every range and of every fault.
TimeFields(c) ==
    [ranges |-> [n \in 1..Len(c.InjectionRangeInfo) |->
                    << c.InjectionRangeInfo[n].StartTime,
                       c.InjectionRangeInfo[n].EndTime >>],
     faults |-> [k \in 1..Len(c.Campaign) |-> c.Campaign[k].Time]]

\* The address fields of campaign c, with the breakpoint counts.
AddressFields(c) ==
    [ranges |-> [n \in 1..Len(c.InjectionRangeInfo) |->
                    << c.InjectionRangeInfo[n].StartAddress,
                       c.InjectionRangeInfo[n].EndAddress >>],
     faults |-> [k \in 1..Len(c.Campaign) |->
                    << c.Campaign[k].Address,
                       c.Campaign[k].BreakpointInfo.Address,
                       c.Campaign[k].BreakpointInfo.Count >>]]

\* The Ids of the faults of campaign c, in campaign order.
IdsOf(c) == [k \in 1..Len(c.Campaign) |-> c.Campaign[k].Id]

\* Campaign c as it was loaded, but for the Effects.
AsLoaded(c) ==
    [InjectionRangeInfo |-> ToolRanges,
     Campaign |-> [k \in 1..Len(c.Campaign) |->
                     ToolFault(k, Len(c.Campaign), c.Campaign[k].Effect)]]

\* Every field of every element of sequence s moved by d from sequence r.
ShiftedBy(r, s, d) ==
    /\ DOMAIN s = DOMAIN r
    /\ \A n \in DOMAIN r : \A j \in DOMAIN r[n] : s[n][j] = r[n][j] + d

\* C21: as long as no property setter was called on its own, the time
\* fields after the time offsets applied so far are those one
\* offsetAllFaultsTimeBy of their sum gives from the campaign as loaded, and
\* on a campaign no offset was applied to yet, two offsets a then b give the
\* time fields of one offset a + b; the same for the address offsets and
\* address fields.
C21_OffsetsCompose ==
    /\ nops = tn + an =>
          /\ TimeFields(fic) =
                 TimeFields(offsetAllFaultsTimeBy(AsLoaded(fic), tsum))
          /\ AddressFields(fic) =
                 AddressFields(offsetAllFaultsAddressBy(AsLoaded(fic), asum))
    /\ nops = 0 => \A a, b \in Offsets :
          /\ TimeFields(offsetAllFaultsTimeBy(
                            offsetAllFaultsTimeBy(fic, a), b))
                = TimeFields(offsetAllFaultsTimeBy(fic, a + b))
          /\ AddressFields(offsetAllFaultsAddressBy(
                               offsetAllFaultsAddressBy(fic, a), b))
                = AddressFields(offsetAllFaultsAddressBy(fic, a + b))

\* Two time offsets, none of them zero, were applied to a campaign with
\* faults.
C21_Witness ==
    /\ tool = "loaded"
    /\ tn = 2
    /\ tsum = 2 * MaxOffset
    /\ Len(fic.Campaign) = MaxCampaignLen

\* C22: a call of offsetAllFaultsTimeBy(d) adds d to the Time of every fault
\* and to StartTime and EndTime of every range, and changes no Address, no
\* breakpoint Address or Count and no range StartAddress or EndAddress.
C22_TimeOffsetFrame ==
    [][tn' = tn + 1 =>
          /\ ShiftedBy(TimeFields(fic).ranges, TimeFields(fic').ranges,
                       tsum' - tsum)
          /\ \A k \in 1..Len(fic.Campaign) :
                fic'.Campaign[k].Time = fic.Campaign[k].Time + tsum' - tsum
          /\ Len(fic'.Campaign) = Len(fic.Campaign)
          /\ AddressFields(fic') = AddressFields(fic)]_vars

\* A time offset other than zero, and no address offset, was applied to a
\* campaign with several ranges and faults.
C22_Witness ==
    /\ tn = 1
    /\ an = 0
    /\ tsum # 0
    /\ Len(fic.InjectionRangeInfo) > 1
    /\ Len(fic.Campaign) = MaxCampaignLen
    /\ TimeFields(fic) # TimeFields(AsLoaded(fic))

\* C23: a call of offsetAllFaultsAddressBy(d) adds d to the Address of every
\* fault, to the Address of its BreakpointInfo and to StartAddress and
\* EndAddress of every range, and changes no Time, StartTime or EndTime
\* (nor a breakpoint Count).
C23_AddressOffsetFrame ==
    [][an' = an + 1 =>
          /\ ShiftedBy(AddressFields(fic).ranges, AddressFields(fic').ranges,
                       asum' - asum)
          /\ \A k \in 1..Len(fic.Campaign) :
                /\ fic'.Campaign[k].Address
                      = fic.Campaign[k].Address + asum' - asum
                /\ fic'.Campaign[k].BreakpointInfo.Address
                      = fic.Campaign[k].BreakpointInfo.Address + asum' - asum
                /\ fic'.Campaign[k].BreakpointInfo.Count
                      = fic.Campaign[k].BreakpointInfo.Count
          /\ Len(fic'.Campaign) = Len(fic.Campaign)
          /\ TimeFields(fic') = TimeFields(fic)]_vars

\* An address offset other than zero, and no time offset, was applied to a
\* campaign with several ranges and faults.
C23_Witness ==
    /\ an = 1
    /\ tn = 0
    /\ asum # 0
    /\ Len(fic.InjectionRangeInfo) > 1
    /\ Len(fic.Campaign) = MaxCampaignLen
    /\ AddressFields(fic) # AddressFields(AsLoaded(fic))

\* C24: no offset operation changes the Id of a fault, nor the number or the
\* order of the faults: the sequence of Ids is the same after the call, and
\* after any number of calls it is the one of the campaign as loaded.
C24_IdsStable ==
    [][nops' = nops + 1 =>
          /\ IdsOf(fic') = IdsOf(fic)
          /\ IdsOf(fic') = IdsOf(AsLoaded(fic))]_vars

\* A time and an address offset, none zero, were applied to a campaign with
\* several faults, whose Ids are not their positions.
C24_Witness ==
    /\ tn >= 1
    /\ an >= 1
    /\ tsum # 0
    /\ asum # 0
    /\ Len(fic.Campaign) = MaxCampaignLen
    /\ \E k \in 1..Len(fic.Campaign) : fic.Campaign[k].Id # k - 1

\* C25 (as claimed): getFault(id) returns the fault whose declared Id is id,
\* wherever that fault is in the campaign sequence.
C25_GetFaultById ==
    tool = "got" =>
        \A k \in 1..Len(fic.Campaign) :
            fic.Campaign[k].Id = got.Id => got.ret = fic.Campaign[k]

\* The Kinds of the terms a campaign file declares for classifier n.
DeclaredKinds(y, n) ==
    [t \in 1..Len(y.Oracle[n].Classification) |->
        y.Oracle[n].Classification[t][1]]

\* The lists of up to MaxTerms Kinds.
KindLists == UNION {[1..n -> ClassificationKinds] : n \in 0..MaxTerms}

\* C26: evaluating a classifier returns the Kind of the first term declared
\* for it in the campaign file (its predicate set is empty, so it holds) and
\* undecided when no term is declared, and whatever terms follow the first
\* one, the result is the same.
C26_FirstTermWins ==
    /\ lpc = "evaluated" =>
          \A n \in 1..Len(doc.Oracle) :
              evals[n] = IF DeclaredKinds(doc, n) = <<>> THEN "undecided"
                         ELSE DeclaredKinds(doc, n)[1]
    /\ ClassificationExprEval(<<>>) = "undecided"
    /\ \A k \in ClassificationKinds : \A rest \in KindLists :
          ClassificationExprEval(<<k>> \o rest) = k

\* A classifier with MaxTerms terms, the last one of another Kind than the
\* first one, was evaluated.
C26_Witness ==
    /\ lpc = "evaluated"
    /\ Len(DeclaredKinds(doc, 1)) = MaxTerms
    /\ DeclaredKinds(doc, 1)[1] # DeclaredKinds(doc, 1)[MaxTerms]
    /\ evals[1] = DeclaredKinds(doc, 1)[1]

\* Document y has every required field at every nesting level, and its
\* FaultModel, Effects and classification terms are in their enumerations.
ValidDoc(y) ==
    /\ CampaignFields \subseteq DOMAIN y
    /\ y.FaultModel \in FaultModels
    /\ \A n \in 1..Len(y.InjectionRangeInfo) :
          RangeFields \subseteq DOMAIN y.InjectionRangeInfo[n]
    /\ \A n \in 1..Len(y.Oracle) :
          /\ ClassifierFields \subseteq DOMAIN y.Oracle[n]
          /\ \A t \in 1..Len(y.Oracle[n].Classification) :
                y.Oracle[n].Classification[t][1] \in ClassificationKinds
    /\ \A k \in 1..Len(y.Campaign) :
          /\ FaultFields \subseteq DOMAIN y.Campaign[k]
          /\ BreakpointFields \subseteq DOMAIN y.Campaign[k].Breakpoint
          /\ IF y.FaultModel = "InstructionSkip"
             THEN InstructionSkipFields \subseteq DOMAIN y.Campaign[k]
             ELSE CorruptRegDefFields \subseteq DOMAIN y.Campaign[k]
          /\ "Effect" \in DOMAIN y.Campaign[k] =>
                y.Campaign[k].Effect \in Effects

\* C27 (as claimed): loading a campaign file with a missing required field
\* or a value outside its enumeration ends with the fatal validation error
\* (die), and there is no campaign object.
C27_InvalidLoadDies ==
    (lpc \in {"loaded", "evaluated", "failed"} /\ ~ValidDoc(doc)) =>
        /\ lpc = "failed"
        /\ err = "die"
        /\ obj = None

\* C29 (as claimed): loading the file saveToFile wrote gives a campaign with
\* the same value in every field as the campaign saved.
C29_SaveLoadRoundTrip ==
    lpc \in {"reloaded", "refailed"} =>
        /\ lpc = "reloaded"
        /\ obj2 = obj

\* What holds of C27: no campaign object is made from such a file.
InvalidLoadFails ==
    (lpc \in {"loaded", "evaluated", "failed"} /\ ~ValidDoc(doc)) =>
        lpc = "failed"

\* What holds of C29: the round trip of a campaign whose classifiers all
\* have exactly one term.
OneTermRoundTrip ==
    (/\ lpc \in {"reloaded", "refailed"}
     /\ \A n \in 1..Len(obj.Oracle) : Len(obj.Oracle[n].Classification) = 1)
        => lpc = "reloaded" /\ obj2 = obj

\* Every fault of a campaign loaded from a complete file is of the variant
\* the FaultModel of the file names.
LoadedVariantsMatch ==
    \A d \in ValidDocs :
        LET r == FaultInjectionCampaign_init(d)
        IN  /\ r.ok
            /\ \A k \in 1..Len(r.val.Campaign) :
                  r.val.Campaign[k].Kind = r.val.FaultModel

\* C28: every fault of the campaign is of the variant its FaultModel names,
\* and a worker only ever applies the injection of that variant: a register
\* is written for a CorruptRegDef fault only, and the instruction memory is
\* modified for an InstructionSkip fault only.
C28_VariantMatches ==
    /\ LoadedVariantsMatch
    /\ \A k \in FaultIdx : campaign.Campaign[k].Kind = campaign.FaultModel
    /\ \A w \in Workers :
          /\ pc[w] = "writereg" => Cur(w).Kind = "CorruptRegDef"
          /\ mem[w] # Image =>
                /\ TheFault[w] # 0
                /\ Cur(w).Kind = "InstructionSkip"

\* A worker is writing the register of a CorruptRegDef fault, in a run whose
\* campaign has that fault model.
C28_Witness ==
    \E w \in Started :
        /\ pc[w] = "writereg"
        /\ campaign.FaultModel = "CorruptRegDef"
        /\ Cur(w).Kind = "CorruptRegDef"

\* The number of files main has handled that did not load.
NumFailed == Cardinality({n \in 1..Len(parsed) : ~parsed[n]})

\* C30 (as claimed): main returns the number of campaign files that failed
\* to parse, and it has handled every file of the command line.
C30_ExitCountsFailures ==
    cli = "returned" =>
        /\ Len(parsed) = Len(files)
        /\ ExitValue = NumFailed

\* What holds of C30: the exit code tells whether some file failed to parse,
\* and every file is handled, those after a failing one included.
ExitValueIsFlag ==
    cli = "returned" =>
        /\ Len(parsed) = Len(files)
        /\ ExitValue = IF NumFailed > 0 THEN 1 ELSE 0

\* The buckets of the summary line, in alphabetical order.
AlphabeticalBuckets ==
    <<"caught", "crash", "noeffect", "notrun", "success", "undecided">>

\* The number of faults of the campaign file y that belong to bucket e.
DocCount(y, e) ==
    Cardinality({k \in 1..Len(y.Campaign) :
                    IF "Effect" \in DOMAIN y.Campaign[k]
                    THEN y.Campaign[k].Effect = e
                    ELSE e = "notrun"})

\* C31: the summary line main prints for a campaign file gives the number of
\* faults of the file, and then the six buckets other than total in
\* alphabetical order, each with the number of faults of the file in it, the
\* buckets with no fault included.
C31_SummaryLine ==
    [][(/\ cli = "loop"
        /\ argi <= Len(files)
        /\ opts.summary
        /\ argi' = argi + 1
        /\ parsed'[argi])
       => LET y == files[argi]
              line == stdout'[Len(stdout) + 1].summary
          IN  /\ line.total = Len(y.Campaign)
              /\ line.res =
                     [n \in 1..Len(AlphabeticalBuckets) |->
                         <<DocCount(y, AlphabeticalBuckets[n]),
                           AlphabeticalBuckets[n]>>]]_vars

\* main printed the summary line of the six-fault campaign: two faults in one
\* bucket, one without Effect, and an empty bucket.
C31_Witness ==
    \E n \in 1..Len(stdout) :
        /\ "summary" \in DOMAIN stdout[n]
        /\ stdout[n].summary.total = 6
        /\ stdout[n].summary.res[4] = <<1, "notrun">>
        /\ stdout[n].summary.res[5] = <<2, "success">>
        /\ stdout[n].summary.res[6] = <<0, "undecided">>

\* The faults of the campaign whose Id is in the allow-list.
Allowed ==
    {k \in FaultIdx : FaultIds.isNone \/ campaign.Campaign[k].Id \in FaultIds.ids}

\* The faults claimed so far, by any driver thread.
Claimed ==
    UNION {{ourFaults[w][n] : n \in 1..Len(ourFaults[w])} : w \in Started}

\* C32: the faults that are queued or were claimed are exactly those whose Id
\* is in the allow-list (all of them without allow-list); the queue holds them
\* in campaign order, those already claimed being the ones before the queued
\* ones; a fault that is not in the allow-list is never claimed and its Effect
\* stays unset.
C32_OnlyAllowedFaults ==
    LET Queued32 == {Faults[n] : n \in 1..Len(Faults)}
        claimed  == Claimed
        allowed  == Allowed
    IN  /\ Queued32 \cup claimed = allowed
        /\ Queued32 \cap claimed = {}
        /\ \A n \in 1..(Len(Faults) - 1) : Faults[n] < Faults[n + 1]
        /\ \A k \in claimed, q \in Queued32 : k < q
        /\ \A k \in FaultIdx \ allowed :
              /\ \A w \in Workers : TheFault[w] # k
              /\ Effect[k] = None
              /\ nset[k] = 0

\* A run with an allow-list has ended: the faults of the list were claimed and
\* classified, and a fault of the campaign that is not in the list was not.
C32_Witness ==
    /\ ~FaultIds.isNone
    /\ AllDone
    /\ Allowed # {}
    /\ FaultIdx \ Allowed # {}
    /\ \A k \in Allowed : Claimers(k) # {} /\ Effect[k] # None
    /\ \E k \in FaultIdx \ Allowed : Effect[k] = None

\* The ids an item of a --fault-ids text stands for.
ItemIds(t) ==
    IF t.kind = "id" THEN {t.a}
    ELSE {v \in 0..(10 + MaxId) :
             \/ t.a <= v /\ v <= t.b
             \/ t.b <= v /\ v <= t.a}

WellFormed(items) ==
    \A n \in 1..Len(items) : items[n].kind \in {"id", "range"}

\* C33: for a text made of ids and ranges, parseFaultIds returns a list in
\* strictly ascending order whose elements are exactly the ids listed and the
\* ids of every range, both of its bounds included, whichever is the greater.
C33_ParsedFaultIds ==
    (ppc # "option" /\ WellFormed(idspec)) =>
        /\ ppc = "parsed"
        /\ LET l == parsed_ids.val
           IN  /\ \A n \in 1..(Len(l) - 1) : l[n] < l[n + 1]
               /\ {l[n] : n \in 1..Len(l)} =
                      UNION {ItemIds(idspec[n]) : n \in 1..Len(idspec)}

\* A text with a descending range and an id that the range contains was
\* parsed.
C33_Witness ==
    /\ ppc = "parsed"
    /\ Len(idspec) = 2
    /\ idspec[1].kind = "range"
    /\ idspec[1].a > idspec[1].b + 1
    /\ idspec[2].kind = "id"
    /\ idspec[2].a = idspec[1].b
    /\ Len(parsed_ids.val) = idspec[1].a - idspec[1].b + 1

\* The positions of a driver thread from the start of runToInjectionPoint to
\* the injection.
ToInjection == {"setbp", "runloop", "checkpc", "inject", "writereg"}

\* C34: from the start of the run to the injection point until the fault is
\* injected, the thread has done four things to its target since it claimed
\* the fault, in this order: the reset (after a stop), the write of
\* ProgramEntryAddress with the low bit set to the reset vector, the reload of
\* the image, the write of 0x01000000 to XPSR.  The memory a fault is injected
\* in is that of the image, whatever was injected for the faults before, and
\* the run starts with XPSR at the value written.
C34_ResetBeforeInjection ==
    \A w \in Started :
        pc[w] \in ToInjection =>
            /\ Len(tlog[w]) = 4
            /\ tlog[w][1].op = "resetModel"
            /\ tlog[w][2].op = "writeMemWord"
            /\ tlog[w][2].at = "vector_table + 4"
            /\ tlog[w][2].value % 2 = 1
            /\ tlog[w][2].value - 1 = campaign.ProgramEntryAddress
            /\ tlog[w][3].op = "reloadImage"
            /\ tlog[w][4].op = "writeRegister"
            /\ tlog[w][4].at = "XPSR"
            /\ tlog[w][4].value = <<256, 0>>
            /\ mem[w] = Image
            /\ pc[w] = "setbp" => regs[w]["XPSR"] = <<256, 0>> /\ hits[w] = 0

\* A thread is about to inject its second fault, after a first fault that
\* was injected and classified, an instruction skip that changed the memory.
C34_Witness ==
    \E w \in Started :
        /\ pc[w] = "inject"
        /\ Len(ourFaults[w]) = 2
        /\ campaign.FaultModel = "InstructionSkip"
        /\ Effect[ourFaults[w][1]] # None
        /\ InjectedMem(Image, campaign.Campaign[ourFaults[w][1]]) # Image

\* C35 (as claimed): the sanity check of InstructionSkip's inject compares
\* the recorded Instruction with the encoding the target holds at the fault's
\* Address, where FaultedInstr is written next: the thread dies there exactly
\* when that encoding differs from the recorded one.
C35_CheckedAtFaultAddress ==
    [][\A w \in Workers :
          (/\ pc[w] = "inject"
           /\ pc'[w] # "inject"
           /\ campaign.FaultModel = "InstructionSkip") =>
              (pc'[w] = "dead" <=>
                  LiveAt(mem[w], Cur(w).Address, Cur(w)) # Cur(w).Instruction)
      ]_vars

\* What holds of C35: the encoding that is compared is the one at the program
\* counter, the breakpoint address, with the width and half-word order of the
\* write; it is the one at the fault's Address when the two addresses agree.
CheckedAtPC ==
    [][\A w \in Workers :
          (/\ pc[w] = "inject"
           /\ pc'[w] # "inject"
           /\ campaign.FaultModel = "InstructionSkip") =>
              /\ tpc[w] = CurBp(w)
              /\ pc'[w] = "dead" <=>
                    LiveAt(mem[w], tpc[w], Cur(w)) # Cur(w).Instruction
              /\ pc'[w] # "dead" =>
                    mem'[w] = InjectedMem(mem[w], Cur(w))]_vars

\* Bit b (0 the lowest) of a 32-bit register value.
BitOf(word, b) ==
    IF b < 16 THEN (word[2] \div 2^b) % 2
    ELSE (word[1] \div 2^(b - 16)) % 2

\* Bit b of the configured fault value: reset is 0, set is all ones, one is 1.
FaultValueBit(b) ==
    CASE FaultValue = 0 -> 0
      [] FaultValue = 0 - 1 -> 1
      [] FaultValue = 1 -> IF b = 0 THEN 1 ELSE 0

\* The flag field of XPSR that is faulted: N, Z, C, V and GE[3:0].
FlagBits == (28..31) \cup (16..19)

\* The register accesses a thread made for the injection of its fault.
InjectionLog(w) == SubSeq(tlog[w], 5, Len(tlog[w]))

\* C36: once a CorruptRegDef fault on the status register is injected, then
\* without hard mode XPSR was read and written once, the value written has
\* the bits of the value read outside the flag field and the bits of the
\* fault value in the flag field; with hard mode XPSR was written without
\* being read, with all the bits of the fault value.  The register holds the
\* value written.
C36_StatusRegisterFault ==
    \A w \in Started :
        (/\ campaign.FaultModel = "CorruptRegDef"
         /\ pc[w] \in {"decide", "fallback", "restore", "update"}
         /\ Cur(w).FaultedReg = "PSR") =>
            LET log == InjectionLog(w)
                wr  == log[Len(log)]
            IN  /\ wr.op = "writeRegister"
                /\ wr.at = "XPSR"
                /\ regs[w]["XPSR"] = wr.value
                /\ wr.value[1] \in 0..(HalfMod - 1)
                /\ wr.value[2] \in 0..(HalfMod - 1)
                /\ IF HardPSRFault
                   THEN /\ Len(log) = 1
                        /\ \A b \in 0..31 :
                              BitOf(wr.value, b) = FaultValueBit(b)
                   ELSE /\ Len(log) = 2
                        /\ log[1].op = "readRegister"
                        /\ log[1].at = "XPSR"
                        /\ \A b \in 0..31 :
                              BitOf(wr.value, b) =
                                  IF b \in FlagBits THEN FaultValueBit(b)
                                  ELSE BitOf(log[1].value, b)

\* The flags of a status register that had flags set and bits set outside
\* the flag field were faulted to all ones, without hard mode.
C36_Witness ==
    \E w \in Started :
        /\ campaign.FaultModel = "CorruptRegDef"
        /\ pc[w] = "decide"
        /\ Cur(w).FaultedReg = "PSR"
        /\ ~HardPSRFault
        /\ FaultValue = 0 - 1
        /\ InjectionLog(w)[1].value = <<24847, 515>>
        /\ regs[w]["XPSR"] = <<61711, 515>>

\* The writes to target memory driver thread w made for its fault after the
\* injection: those of restore(TheFault).
MemoryRestores(w) ==
    {n \in 7..Len(tlog[w]) : tlog[w][n].op \in {"writeMemHalf", "writeMemWord"}}

\* The decision loop of thread w has been entered for its fault.
InDecision(w) == pc[w] \in {"decide", "fallback", "restore", "update"}

\* C37: the decision loop of a fault runs the target at most four times: at
\* most 3 stops that match no condition, at most one stop that is a re-entry
\* (after which the breakpoint is not held, so that a later stop at its
\* address is counted as a stop that matches nothing), and one run that ends
\* the loop, a timeout, a stop at ProgramEndAddress or an oracle match; the
\* loop goes on only while none of the three has happened and less than 3
\* stops matched nothing.
C37_DecisionLoopBounded ==
    \A w \in Started :
        LET re    == Cardinality(MemoryRestores(w))
            final == runs[w] - i[w] - re
        IN  /\ pc[w] = "decide" =>
                  /\ i[w] < 3
                  /\ ~OracleMet[w]
                  /\ ~timedout[w]
                  /\ Effect[TheFault[w]] = None
                  /\ final = 0
            /\ InDecision(w) =>
                  /\ i[w] <= 3
                  /\ re <= 1
                  /\ re = 1 => IBP[w] = NoIBP
                  /\ runs[w] <= 4
                  /\ final \in {0, 1}
            /\ (InDecision(w) /\ pc[w] # "decide") =>
                  /\ final = 1 <=> (timedout[w] \/ OracleMet[w])
                  /\ final = 0 => i[w] = 3
                  /\ OracleMet[w] => Effect[TheFault[w]] # None

\* A decision loop of four runs has ended: a re-entry, and three stops that
\* matched nothing, the last of them at the address of the breakpoint that
\* the re-entry cleared.
C37_Witness ==
    \E w \in Started :
        /\ pc[w] = "fallback"
        /\ runs[w] = 4
        /\ i[w] = 3
        /\ Cardinality(MemoryRestores(w)) = 1
        /\ tpc[w] = CurBp(w)

\* The sum of the five counts FaultDispatcher.close prints.
SumCnt ==
    Cnt["success"] + Cnt["caught"] + Cnt["noeffect"] + Cnt["crash"]
        + Cnt["undecided"]

\* What C38 says of the run once the driver threads are joined.
CloseIsClean ==
    /\ \A k \in Selected : Effect[k] \in Effects
    /\ main # "dead"
    /\ main \in {"save", "shutdown"} => SumCnt = CntInjection

\* C38 (as claimed): when every driver thread has ended and none by a fatal
\* error, every selected fault has one of the five effects, close does not
\* end on an unexpected effect, and the five counts it computes add up to the
\* number of selected faults.
C38_CloseCountsAllFaults ==
    (/\ main # "finalize"
     /\ \A w \in Started : pc[w] \in {"done", "raised"}) => CloseIsClean

\* What holds of C38: the same, when every driver thread ended on the empty
\* queue.
CloseAfterNormalEnd ==
    (main # "finalize" /\ AllDone) => CloseIsClean

\* C39: for InstructionSkip, once restore(TheFault) has followed inject at the
\* injection point, the memory at the fault's Address holds the recorded
\* Instruction, for a 16-bit and for a 32-bit fault, and no injection
\* breakpoint is held; restore() with no argument only clears the
\* breakpoint: it writes no target memory, so that without a re-entry the
\* memory keeps the faulted encoding the injection wrote.
C39_InjectThenRestore ==
    \A w \in Started :
        (campaign.FaultModel = "InstructionSkip" /\ InDecision(w)) =>
            LET f    == Cur(w)
                last == Len(tlog[w])
            IN  /\ MemoryRestores(w) # {} =>
                      /\ LiveAt(mem[w], f.Address, f) = f.Instruction
                      /\ mem[w] = Image
                      /\ IBP[w] = NoIBP
                /\ MemoryRestores(w) = {} =>
                      /\ LiveAt(mem[w], f.Address, f) = f.FaultedInstr
                      /\ mem[w] = InjectedMem(Image, f)
                /\ pc[w] = "update" =>
                      /\ IBP[w] = NoIBP
                      /\ tlog[w][last].op = "clearInjectionBreakpoint"
                      /\ (last - 1) \notin MemoryRestores(w)

\* A driver thread ended a fault of a 32-bit instruction after a re-entry:
\* restore(TheFault) wrote both halves of the instruction back and the final
\* restore() added nothing but the clearing of the breakpoint.
C39_Witness ==
    \E w \in Started :
        /\ campaign.FaultModel = "InstructionSkip"
        /\ pc[w] = "update"
        /\ Cur(w).Width = 32
        /\ MemoryRestores(w) = {7}
        /\ tlog[w][7] = [op |-> "writeMemWord", at |-> Cur(w).Address,
                         value |-> Cur(w).Instruction]
        /\ tlog[w][6].value = Cur(w).FaultedInstr
        /\ mem[w][Cur(w).Address] = Cur(w).Instruction \div HalfMod
        /\ mem[w][Cur(w).Address + 2] = Cur(w).Instruction % HalfMod
        /\ Len(tlog[w]) = 9
        /\ IBP[w] = NoIBP

====
